---------------------------- MODULE Spec2Model ----------------------------
(***************************************************************************)
(* The chunking and structural-classification pipeline of the PDF          *)
(* extractor: EnhancedPDFExtractor (src/chunks2.py) and                    *)
(* PDFToChunksExtractor (src/extrair/chunks.py).                           *)
(*                                                                         *)
(* Text is a sequence of one-character strings, so that slicing, strip(),   *)
(* re.split() and re.search() are computed character by character.         *)
(***************************************************************************)
EXTENDS Integers, Sequences, FiniteSets, TLC

VARIABLES
    impl,                   \* which entry point runs: a Chunk Builder ("docling" |
                            \* "content"), a Section Classifier, a main() or the pipeline
    chunk_size,             \* self.chunk_size
    overlap,                \* self.overlap
    min_chunk_size,         \* self.min_chunk_size
    text_blocks,            \* the input element sequence (docling_data["text_blocks"])
    pc,                     \* position of the running method
    idx,                    \* 1-based index of the element the loop is at
    current_chunk_content,  \* the accumulator of _create_chunks_from_docling
    current_section,        \* nearest heading seen so far, or None
    current_elements,       \* elements appended to the accumulator
    current_seed,           \* history: the overlap seed the accumulator started from
    current_appended,       \* history: what was appended after the seed, and for which element
    chunks,                 \* the output list
    hist,                   \* history, one entry per chunk: how it was built
    document_structures,    \* self.document_structures
    current_hierarchy,      \* the level stack of _build_document_hierarchy
    all_elements,           \* the pages handed to create_content_chunks
    page_idx,               \* 1-based index of the page its outer loop is at
    visual_context,         \* the page's pending image/table annotation
    current_chunk,          \* the open chunk dict of create_content_chunks
    chunk_counter,          \* chunk_counter of create_content_chunks
    classifier_text,        \* the text handed to a Section Classifier
    classified,             \* history: the results of the classifier calls made so far
    argv,                   \* sys.argv
    arg_i,                  \* i of main's argument loop (0-based, as in the code)
    fund_identifier,        \* main's fund_identifier: <<>> is None, <<s>> the string s
    map_id,                 \* main's map_id: <<>> is None, <<n>> the integer n
    sql_query,              \* the WHERE clause get_fund_info_from_sql built, <<>> before
    fund_info,              \* metadata["fund_info"], <<>> before the lookup
    extracted_data          \* what extract_to_enhanced_chunks returned, <<>> before

vars == <<impl, chunk_size, overlap, min_chunk_size, text_blocks, pc, idx,
          current_chunk_content, current_section, current_elements, current_seed,
          current_appended, chunks, hist, document_structures, current_hierarchy,
          all_elements, page_idx, visual_context, current_chunk, chunk_counter,
          classifier_text, classified, argv, arg_i, fund_identifier, map_id, sql_query,
          fund_info, extracted_data>>

---------------------------------------------------------------------------
(* Bounds of the model *)

MaxElems == 3      \* longest input element sequence of the general family

---------------------------------------------------------------------------
(* Text primitives (Python str semantics) *)

Whitespace == {" ", "\n", "\t"}
SentenceEnd == {".", "!", "?"}
Separator == <<"\n", "\n">>

SetMin(S) == CHOOSE x \in S : \A y \in S : x <= y
SetMax(S) == CHOOSE x \in S : \A y \in S : x >= y

\* s[from:] with a 0-based start (Python slice; start clipped to the length)
SliceFrom(s, start) == SubSeq(s, start + 1, Len(s))

\* s[-n:] as Python computes it: -0 is 0, so s[-0:] is the whole string
NegSlice(s, n) ==
    IF n = 0 THEN s
    ELSE IF n >= Len(s) THEN s
    ELSE SubSeq(s, Len(s) - n + 1, Len(s))

RECURSIVE LStrip(_)
LStrip(s) == IF s # <<>> /\ Head(s) \in Whitespace THEN LStrip(Tail(s)) ELSE s

RECURSIVE RStrip(_)
RStrip(s) ==
    IF s # <<>> /\ s[Len(s)] \in Whitespace
    THEN RStrip(SubSeq(s, 1, Len(s) - 1)) ELSE s

\* str.strip()
Strip(s) == RStrip(LStrip(s))

\* first index >= i that holds no whitespace (Len(s)+1 when there is none)
RECURSIVE SkipWs(_, _)
SkipWs(s, i) == IF i <= Len(s) /\ s[i] \in Whitespace THEN SkipWs(s, i + 1) ELSE i

\* re.split(r'[.!?]\s+', s): leftmost matches, \s+ greedy
RECURSIVE ReSplitSentences(_)
ReSplitSentences(s) ==
    LET hits == {i \in 1..(Len(s) - 1) : s[i] \in SentenceEnd /\ s[i + 1] \in Whitespace}
    IN IF hits = {} THEN <<s>>
       ELSE LET i == SetMin(hits)
                j == SkipWs(s, i + 1)
            IN <<SubSeq(s, 1, i - 1)>> \o ReSplitSentences(SubSeq(s, j, Len(s)))

\* sep.join(parts)
RECURSIVE Join(_, _)
Join(parts, sep) ==
    IF parts = <<>> THEN <<>>
    ELSE IF Len(parts) = 1 THEN parts[1]
    ELSE parts[1] \o sep \o Join(Tail(parts), sep)

\* len(s.split()): number of maximal runs of non-whitespace
WordCount(s) ==
    Cardinality({i \in 1..Len(s) :
        s[i] \notin Whitespace /\ (i = 1 \/ s[i - 1] \in Whitespace)})

IsSuffix(t, s) == Len(t) <= Len(s) /\ SubSeq(s, Len(s) - Len(t) + 1, Len(s)) = t
IsPrefix(t, s) == Len(t) <= Len(s) /\ SubSeq(s, 1, Len(t)) = t
Occurs(t, s) == \E i \in 0..(Len(s) - Len(t)) : SubSeq(s, i + 1, i + Len(t)) = t

---------------------------------------------------------------------------
(* _get_overlap_content *)

\* (mutant) the whole finalized content is carried over
get_overlap_content_whole(content) == content

get_overlap_content(content) ==
    IF Len(content) <= overlap THEN content
    ELSE LET overlap_start == Len(content) - overlap
             sentences == ReSplitSentences(SliceFrom(content, overlap_start))
         IN IF Len(sentences) > 1
            THEN Join(Tail(sentences), <<".", " ">>) \o <<".">>
            ELSE NegSlice(content, overlap)

---------------------------------------------------------------------------
(* Regular expressions of _classify_section_type: a pattern is a sequence   *)
(* of tokens; MatchEnds gives every position a match starting at i can end  *)
(* at, which is what a backtracking search explores.                        *)

Lit(ch) == [k |-> "lit", c |-> ch, alts |-> {}]
Opt(ch) == [k |-> "opt", c |-> ch, alts |-> {}]
WsPlus == [k |-> "ws+", c |-> "", alts |-> {}]
Alt(S) == [k |-> "alt", c |-> "", alts |-> S]
Lits(s) == [i \in 1..Len(s) |-> Lit(s[i])]

RECURSIVE MatchEnds(_, _, _)
MatchEnds(toks, s, i) ==
    IF toks = <<>> THEN {i}
    ELSE LET t == Head(toks)
             after ==
                 CASE t.k = "lit" -> IF i <= Len(s) /\ s[i] = t.c THEN {i + 1} ELSE {}
                   [] t.k = "opt" -> {i} \cup (IF i <= Len(s) /\ s[i] = t.c THEN {i + 1} ELSE {})
                   [] t.k = "ws+" -> {j \in (i + 1)..(Len(s) + 1) :
                                         \A m \in i..(j - 1) : s[m] \in Whitespace}
                   [] t.k = "alt" -> UNION {MatchEnds(a, s, i) : a \in t.alts}
         IN UNION {MatchEnds(Tail(toks), s, j) : j \in after}

\* bool(re.search(pattern, s))
ReSearch(toks, s) == \E i \in 1..(Len(s) + 1) : MatchEnds(toks, s, i) # {}

LowerCase == <<"a", "b", "c", "d", "e", "f", "g", "h", "i", "j", "k", "l", "m",
               "n", "o", "p", "q", "r", "s", "t", "u", "v", "w", "x", "y", "z">>
UpperCase == <<"A", "B", "C", "D", "E", "F", "G", "H", "I", "J", "K", "L", "M",
               "N", "O", "P", "Q", "R", "S", "T", "U", "V", "W", "X", "Y", "Z">>

\* str.upper()
Upper(s) ==
    [i \in 1..Len(s) |->
        IF \E n \in 1..26 : LowerCase[n] = s[i]
        THEN UpperCase[CHOOSE n \in 1..26 : LowerCase[n] = s[i]]
        ELSE s[i]]

\* the pattern table, in declaration (dict insertion) order
section_patterns == <<
    [section_type |-> "executive_summary", patterns |-> <<
        \* r"EXECUTIVE\s+SUMMARY"
        Lits(<<"E", "X", "E", "C", "U", "T", "I", "V", "E">>) \o <<WsPlus>> \o Lits(<<"S", "U", "M", "M", "A", "R", "Y">>),
        \* r"SUMMARY"
        Lits(<<"S", "U", "M", "M", "A", "R", "Y">>),
        \* r"OVERVIEW"
        Lits(<<"O", "V", "E", "R", "V", "I", "E", "W">>)
    >>],
    [section_type |-> "investment_strategy", patterns |-> <<
        \* r"INVESTMENT\s+(STRATEGY|APPROACH|OBJECTIVE)"
        Lits(<<"I", "N", "V", "E", "S", "T", "M", "E", "N", "T">>) \o <<WsPlus>> \o <<Alt({Lits(<<"S", "T", "R", "A", "T", "E", "G", "Y">>), Lits(<<"A", "P", "P", "R", "O", "A", "C", "H">>), Lits(<<"O", "B", "J", "E", "C", "T", "I", "V", "E">>)})>>,
        \* r"STRATEGY"
        Lits(<<"S", "T", "R", "A", "T", "E", "G", "Y">>),
        \* r"APPROACH"
        Lits(<<"A", "P", "P", "R", "O", "A", "C", "H">>),
        \* r"METHODOLOGY"
        Lits(<<"M", "E", "T", "H", "O", "D", "O", "L", "O", "G", "Y">>)
    >>],
    [section_type |-> "fund_information", patterns |-> <<
        \* r"FUND\s+(INFORMATION|DETAILS|FACTS)"
        Lits(<<"F", "U", "N", "D">>) \o <<WsPlus>> \o <<Alt({Lits(<<"I", "N", "F", "O", "R", "M", "A", "T", "I", "O", "N">>), Lits(<<"D", "E", "T", "A", "I", "L", "S">>), Lits(<<"F", "A", "C", "T", "S">>)})>>,
        \* r"SHARE\s+CLASS"
        Lits(<<"S", "H", "A", "R", "E">>) \o <<WsPlus>> \o Lits(<<"C", "L", "A", "S", "S">>),
        \* r"FUND\s+OVERVIEW"
        Lits(<<"F", "U", "N", "D">>) \o <<WsPlus>> \o Lits(<<"O", "V", "E", "R", "V", "I", "E", "W">>)
    >>],
    [section_type |-> "performance", patterns |-> <<
        \* r"PERFORMANCE"
        Lits(<<"P", "E", "R", "F", "O", "R", "M", "A", "N", "C", "E">>),
        \* r"RETURNS?"
        Lits(<<"R", "E", "T", "U", "R", "N">>) \o <<Opt("S")>>,
        \* r"TRACK\s+RECORD"
        Lits(<<"T", "R", "A", "C", "K">>) \o <<WsPlus>> \o Lits(<<"R", "E", "C", "O", "R", "D">>)
    >>],
    [section_type |-> "risk_factors", patterns |-> <<
        \* r"RISK\s+(FACTORS?|WARNING|DISCLOSURE)"
        Lits(<<"R", "I", "S", "K">>) \o <<WsPlus>> \o <<Alt({Lits(<<"F", "A", "C", "T", "O", "R">>) \o <<Opt("S")>>, Lits(<<"W", "A", "R", "N", "I", "N", "G">>), Lits(<<"D", "I", "S", "C", "L", "O", "S", "U", "R", "E">>)})>>,
        \* r"IMPORTANT\s+NOTICES?"
        Lits(<<"I", "M", "P", "O", "R", "T", "A", "N", "T">>) \o <<WsPlus>> \o Lits(<<"N", "O", "T", "I", "C", "E">>) \o <<Opt("S")>>,
        \* r"WARNING"
        Lits(<<"W", "A", "R", "N", "I", "N", "G">>)
    >>],
    [section_type |-> "legal", patterns |-> <<
        \* r"LEGAL"
        Lits(<<"L", "E", "G", "A", "L">>),
        \* r"REGULATORY"
        Lits(<<"R", "E", "G", "U", "L", "A", "T", "O", "R", "Y">>),
        \* r"DISCLAIMER"
        Lits(<<"D", "I", "S", "C", "L", "A", "I", "M", "E", "R">>),
        \* r"TERMS\s+AND\s+CONDITIONS"
        Lits(<<"T", "E", "R", "M", "S">>) \o <<WsPlus>> \o Lits(<<"A", "N", "D">>) \o <<WsPlus>> \o Lits(<<"C", "O", "N", "D", "I", "T", "I", "O", "N", "S">>)
    >>],
    [section_type |-> "fees", patterns |-> <<
        \* r"FEE"
        Lits(<<"F", "E", "E">>),
        \* r"COST"
        Lits(<<"C", "O", "S", "T">>),
        \* r"EXPENSE"
        Lits(<<"E", "X", "P", "E", "N", "S", "E">>),
        \* r"CHARGE"
        Lits(<<"C", "H", "A", "R", "G", "E">>)
    >>],
    [section_type |-> "contact", patterns |-> <<
        \* r"CONTACT"
        Lits(<<"C", "O", "N", "T", "A", "C", "T">>),
        \* r"ADDRESS"
        Lits(<<"A", "D", "D", "R", "E", "S", "S">>),
        \* r"ADMINISTRATOR"
        Lits(<<"A", "D", "M", "I", "N", "I", "S", "T", "R", "A", "T", "O", "R">>)
    >>]
>>


\* (mutant) the last category, in table order, with a matching pattern
classify_section_type_last_match(title) ==
    LET title_upper == Upper(title)
        hit(n) == \E m \in 1..Len(section_patterns[n].patterns) :
                      ReSearch(section_patterns[n].patterns[m], title_upper)
        hits == {n \in 1..Len(section_patterns) : hit(n)}
    IN IF hits = {} THEN "general"
       ELSE section_patterns[SetMax(hits)].section_type

\* _classify_section_type: first category, in table order, with a matching pattern
classify_section_type(title) ==
    LET title_upper == Upper(title)
        hit(n) == \E m \in 1..Len(section_patterns[n].patterns) :
                      ReSearch(section_patterns[n].patterns[m], title_upper)
        hits == {n \in 1..Len(section_patterns) : hit(n)}
    IN IF hits = {} THEN "general"
       ELSE section_patterns[SetMin(hits)].section_type

---------------------------------------------------------------------------
(* Section hierarchy: _build_document_hierarchy and the parent lookup of    *)
(* _get_hierarchy_path                                                      *)

\* parent_id None; f"section_{i}" is kept as the number i
NoParent == -1

\* (mutant) the parent is numbered one past the top of the stack
find_parent_id_past_top(hierarchy, level) == Len(hierarchy)

\* current_hierarchy index of the last heading of smaller level, as "section_{i}"
find_parent_id(hierarchy, level) ==
    LET smaller == {i \in 1..Len(hierarchy) : hierarchy[i].level < level}
    IN IF smaller = {} THEN NoParent ELSE SetMax(smaller) - 1

\* DocumentStructure(...) as built for a heading element
new_section(element, parent) ==
    [level |-> element.level,
     title |-> element.content,
     start_page |-> element.page,
     end_page |-> element.page,
     parent_id |-> parent,
     section_type |-> classify_section_type(element.content)]

\* current_hierarchy = [s for s in current_hierarchy if s.level < level] + [section]
adjust_hierarchy(hierarchy, section) ==
    Append(SelectSeq(hierarchy, LAMBDA s : s.level < section.level), section)

\* list.index(s): 0-based position of the first element equal to s
ListIndex(list, s) == SetMin({j \in 1..Len(list) : list[j] = s}) - 1

\* next((s for s in structures if f"section_{structures.index(s)}" == parent_id), None):
\* the 1-based position of the section found, 0 for None
resolve_parent(structures, parent) ==
    LET found == {j \in 1..Len(structures) : ListIndex(structures, structures[j]) = parent}
    IN IF found = {} THEN 0 ELSE SetMin(found)

\* the while loop of _get_hierarchy_path, current = structures[pos]
RECURSIVE climb_parents(_, _, _)
climb_parents(structures, pos, temp_path) ==
    IF structures[pos].parent_id = NoParent THEN temp_path
    ELSE LET parent == resolve_parent(structures, structures[pos].parent_id)
         IN IF parent # 0
            THEN climb_parents(structures, parent,
                               <<structures[parent].title>> \o temp_path)
            ELSE temp_path

\* _get_hierarchy_path
get_hierarchy_path(structures, section_title) ==
    LET same == {j \in 1..Len(structures) : structures[j].title = section_title}
    IN IF same # {} THEN climb_parents(structures, SetMin(same), <<section_title>>)
       ELSE IF section_title # <<>> THEN <<section_title>> ELSE <<>>

---------------------------------------------------------------------------
(* Chunk Builder of chunks2.py: _create_chunks_from_docling                 *)

Digit == <<"0", "1", "2", "3", "4", "5", "6", "7", "8", "9">>

\* str(n) for n >= 0
RECURSIVE Str(_)
Str(n) == IF n < 10 THEN <<Digit[n + 1]>> ELSE Str(n \div 10) \o <<Digit[(n % 10) + 1]>>

\* f"chunk_{chunk_id}"
chunk_label(chunk_id) == <<"c", "h", "u", "n", "k", "_">> \o Str(chunk_id)

\* current_section = None
None == [type |-> "none", content |-> <<>>, level |-> 0, page |-> 0]

\* sum(el.get("confidence", 0.5) for el in elements), in tenths
RECURSIVE confidence_sum(_)
confidence_sum(elements) ==
    IF elements = <<>> THEN 0
    ELSE (IF "confidence" \in DOMAIN Head(elements) THEN Head(elements).confidence ELSE 5)
             + confidence_sum(Tail(elements))

\* _create_chunk_from_content; structural_confidence in tenths, the quotient
\* rounded down
create_chunk_from_content(content, section, elements, chunk_id) ==
    [id |-> chunk_label(chunk_id),
     content |-> Strip(content),
     word_count |-> WordCount(content),
     char_count |-> Len(content),
     structural_confidence |-> IF elements # <<>>
                               THEN confidence_sum(elements) \div Len(elements)
                               ELSE 5,
     section_title |-> IF section # None THEN section.content ELSE <<>>,
     section_type |-> IF section # None THEN classify_section_type(section.content)
                      ELSE "general_content",
     section_level |-> IF section # None THEN section.level ELSE 0,
     hierarchy_path |-> get_hierarchy_path(document_structures,
                            IF section # None THEN section.content ELSE <<>>),
     previous_chunk_summary |-> <<>>]

\* (mutant) the id taken before the list grows, without the + 1
next_chunk_id_zero_based(list) == Len(list)

\* the id handed to _create_chunk_from_content: len(chunks) + 1
next_chunk_id(list) == Len(list) + 1

\* (mutant) an accumulator of exactly min_chunk_size already counts as enough
boundary_reached_at_min(accumulator, element_content) ==
    /\ Len(accumulator) + Len(element_content) > chunk_size
    /\ Len(accumulator) >= min_chunk_size

\* (mutant) the min_chunk_size test is forgotten
boundary_reached_size_only(accumulator, element_content) ==
    Len(accumulator) + Len(element_content) > chunk_size

\* the boundary check before an element is appended
boundary_reached(accumulator, element_content) ==
    /\ Len(accumulator) + Len(element_content) > chunk_size
    /\ Len(accumulator) > min_chunk_size

\* if current: current += "\n\n"; current += element_content
append_content(accumulator, element_content) ==
    (IF accumulator # <<>> THEN accumulator \o Separator ELSE accumulator)
        \o element_content

\* (mutant) a heading never closes the chunk before it
heading_closes_chunk_never(accumulator) == FALSE

\* "if current_chunk_content.strip():" at a heading: the chunk before it is closed
heading_closes_chunk(accumulator) == Strip(accumulator) # <<>>

\* (mutant) the accumulator left after the loop is never finalized
last_chunk_pending_never(accumulator) == FALSE

\* the trailing "if current_chunk_content.strip():" of the builder
last_chunk_pending(accumulator) == Strip(accumulator) # <<>>

\* history of one finalized chunk: what finalized it ("heading", "boundary",
\* "end"), the seed it started from, the accumulator as finalized, the appended parts
HistEntry(by, seed, raw, appended) ==
    [by |-> by, seed |-> seed, raw |-> raw, appended |-> appended]

Part(element, text) == [element |-> element, text |-> text]

\* content.split()
RECURSIVE Words(_)
Words(s) ==
    LET t == LStrip(s)
        stops == {i \in 1..Len(t) : t[i] \in Whitespace}
        stop == IF stops = {} THEN Len(t) + 1 ELSE SetMin(stops)
    IN IF t = <<>> THEN <<>>
       ELSE <<SubSeq(t, 1, stop - 1)>> \o Words(SubSeq(t, stop, Len(t)))

\* _create_chunk_summary
create_chunk_summary(content) ==
    LET words == Words(content)
    IN IF Len(words) <= 20 THEN content
       ELSE Join(SubSeq(words, 1, 10), <<" ">>) \o <<" ", ".", ".", ".", " ">>
                \o Join(SubSeq(words, Len(words) - 9, Len(words)), <<" ">>)

\* _find_relevant_section_for_chunk; chunk_index is 0-based; {} is the empty record.
\* int(chunk_index / total_chunks * n) is the integer floor for lists this short.
find_relevant_section_for_chunk(chunk_index, total_chunks) ==
    LET relevant_sections == SelectSeq(document_structures, LAMBDA sec : sec.level <= 2)
        scaled == (chunk_index * Len(relevant_sections)) \div total_chunks
        section_index == IF scaled < Len(relevant_sections) - 1
                         THEN scaled ELSE Len(relevant_sections) - 1
        selected_section == relevant_sections[section_index + 1]
    IN IF document_structures = <<>> \/ relevant_sections = <<>>
       THEN [x \in {} |-> x]
       ELSE [section_title |-> selected_section.title,
             section_type |-> selected_section.section_type,
             section_level |-> selected_section.level,
             hierarchy_path |-> get_hierarchy_path(document_structures,
                                                   selected_section.title)]

\* f"{i + 1}/{len(chunks)}", i being the 1-based position here
chunk_position(i, n) == Str(i) \o <<"/">> \o Str(n)

\* the body of the loop of _enrich_chunks_with_structure for the chunk at list[i]
enrich_chunk(list, i) ==
    LET n == Len(list)
        position == [chunk_position |-> chunk_position(i, n)]
        previous == IF i > 1
                    THEN [previous_chunk_id |-> list[i - 1].id,
                          previous_chunk_summary |->
                              create_chunk_summary(list[i - 1].content)]
                    ELSE [x \in {} |-> x]
        next == IF i < n THEN [next_chunk_id |-> list[i + 1].id] ELSE [x \in {} |-> x]
        section_info == find_relevant_section_for_chunk(i - 1, n)
    IN section_info @@ next @@ previous @@ position @@ list[i]

---------------------------------------------------------------------------
(* Chunk Builder of extrair/chunks.py: create_content_chunks (the same loop  *)
(* is in extrair/chunkscompleto.py)                                         *)

\* the graph lines of visual_context, one per chart/graph image
RECURSIVE chart_lines(_)
chart_lines(images) ==
    IF images = <<>> THEN <<>>
    ELSE (IF Head(images).likely_type \in {"chart", "graph"}
          THEN <<"\n", "[", "G", "R", "A", "F", "I", "C", "O", ":", " ">> \o Head(images).dimensions \o <<"]">>
          ELSE <<>>) \o chart_lines(Tail(images))

\* visual_context as computed at the start of a page (accented capitals of the
\* source text written unaccented, one character each as in the source)
page_visual_context(page) ==
    (IF page.images # <<>>
     THEN <<"\n", "[", "P", "A", "G", "I", "N", "A", " ">> \o Str(page.page_number)
              \o <<" ", "C", "O", "N", "T", "E", "M", " ">> \o Str(Len(page.images))
              \o <<" ", "I", "M", "A", "G", "E", "N", "S", "]">> \o chart_lines(page.images)
     ELSE <<>>)
    \o (IF page.tables # 0
        THEN <<"\n", "[", "P", "A", "G", "I", "N", "A", " ">> \o Str(page.page_number)
                 \o <<" ", "C", "O", "N", "T", "E", "M", " ">> \o Str(page.tables)
                 \o <<" ", "T", "A", "B", "E", "L", "A", "S", "]">>
        ELSE <<>>)

\* the visual context goes to the page's first heading or paragraph block
takes_visual_context(context, block_type) ==
    context # <<>> /\ block_type \in {"heading", "paragraph"}

\* "x not in list: list.append(x)"
AppendNew(list, x) == IF \E i \in 1..Len(list) : list[i] = x THEN list ELSE Append(list, x)

\* f"page_{page_num + 1}_block_{i + 1}" of extract_page_elements
block_label(page_num, i) ==
    <<"p", "a", "g", "e", "_">> \o Str(page_num)
        \o <<"_", "b", "l", "o", "c", "k", "_">> \o Str(i)

\* current_chunk as created before the loop
empty_chunk ==
    [id |-> <<>>, content |-> <<>>, pages |-> <<>>, elements |-> <<>>,
     content_types |-> <<>>, word_count |-> 0, char_count |-> 0,
     previous_chunk_summary |-> <<>>]

\* current_chunk as created after a boundary
fresh_chunk(counter, overlap_content, page_num, block, previous_summary) ==
    [id |-> chunk_label(counter), content |-> overlap_content, pages |-> <<page_num>>,
     elements |-> <<block.id>>, content_types |-> <<block.type>>,
     word_count |-> 0, char_count |-> 0,
     previous_chunk_summary |-> previous_summary]

\* _finalize_chunk of extrair/chunks.py
finalize_chunk(chunk, chunk_id) ==
    [chunk EXCEPT !.id = chunk_label(chunk_id),
                  !.word_count = WordCount(chunk.content),
                  !.char_count = Len(chunk.content)]

\* (mutant) the open chunk is finalized even when it is empty
content_chunk_pending_always(chunk) == TRUE

\* the trailing "if current_chunk["content"].strip():" of create_content_chunks
content_chunk_pending(chunk) == Strip(chunk.content) # <<>>

\* (mutant) the last chunk is given a next_chunk_id too, its own id
link_chunk_last_has_next(list, i) ==
    LET n == Len(list)
        position == [chunk_position |-> chunk_position(i, n)]
        previous == IF i > 1 THEN [previous_chunk_id |-> list[i - 1].id]
                    ELSE [x \in {} |-> x]
        next == [next_chunk_id |-> list[IF i < n THEN i + 1 ELSE i].id]
    IN next @@ previous @@ position @@ list[i]

\* the closing loop of create_content_chunks for the chunk at list[i]
link_chunk(list, i) ==
    LET n == Len(list)
        position == [chunk_position |-> chunk_position(i, n)]
        previous == IF i > 1 THEN [previous_chunk_id |-> list[i - 1].id]
                    ELSE [x \in {} |-> x]
        next == IF i < n THEN [next_chunk_id |-> list[i + 1].id] ELSE [x \in {} |-> x]
    IN next @@ previous @@ position @@ list[i]

---------------------------------------------------------------------------
(* Regular expressions of _get_section_context. A pattern is a tree; Ends    *)
(* lists the positions a match starting at i can end at, in the order a      *)
(* backtracking matcher tries them, so that its head is where re ends the    *)
(* match.                                                                    *)

Digits == {"0", "1", "2", "3", "4", "5", "6", "7", "8", "9"}
Letters == {LowerCase[n] : n \in 1..26} \cup {UpperCase[n] : n \in 1..26}
\* \w
WordChars == Letters \cup Digits \cup {"_"}

Ch(S) == [k |-> "ch", set |-> S]
Cat(parts) == [k |-> "cat", parts |-> parts]
Or(parts) == [k |-> "or", parts |-> parts]
\* body{lo,hi}, greedy; hi = -1 is no upper limit
Rep(body, lo, hi) == [k |-> "rep", body |-> body, lo |-> lo, hi |-> hi]
\* \b
WordBoundary == [k |-> "b"]
\* $ (without re.MULTILINE): the end of the text, or before a final line break
EndOfText == [k |-> "end"]
\* . (without re.DOTALL): any character but a line break
AnyChar == [k |-> "any"]

\* a letter under re.IGNORECASE
BothCases(ch) ==
    IF \E n \in 1..26 : ch \in {LowerCase[n], UpperCase[n]}
    THEN LET n == CHOOSE n \in 1..26 : ch \in {LowerCase[n], UpperCase[n]}
         IN {LowerCase[n], UpperCase[n]}
    ELSE {ch}

\* literal text under re.IGNORECASE
NoCase(s) == Cat([i \in 1..Len(s) |-> Ch(BothCases(s[i]))])

IsWordAt(s, i) == i >= 1 /\ i <= Len(s) /\ s[i] \in WordChars

RECURSIVE Ends(_, _, _)
RECURSIVE CatEnds(_, _, _)
RECURSIVE CatContinue(_, _, _)
RECURSIVE OrEnds(_, _, _)
RECURSIVE RepEnds(_, _, _, _)
RECURSIVE RepContinue(_, _, _, _)

Ends(r, s, i) ==
    CASE r.k = "ch" -> IF i <= Len(s) /\ s[i] \in r.set THEN <<i + 1>> ELSE <<>>
      [] r.k = "b" -> IF IsWordAt(s, i - 1) # IsWordAt(s, i) THEN <<i>> ELSE <<>>
      [] r.k = "any" -> IF i <= Len(s) /\ s[i] # "\n" THEN <<i + 1>> ELSE <<>>
      [] r.k = "end" -> IF i = Len(s) + 1 \/ (i = Len(s) /\ s[i] = "\n")
                        THEN <<i>> ELSE <<>>
      [] r.k = "cat" -> CatEnds(r.parts, s, i)
      [] r.k = "or" -> OrEnds(r.parts, s, i)
      [] r.k = "rep" -> RepEnds(r, s, i, 0)

CatEnds(parts, s, i) ==
    IF parts = <<>> THEN <<i>>
    ELSE CatContinue(Ends(Head(parts), s, i), Tail(parts), s)

CatContinue(ends, rest, s) ==
    IF ends = <<>> THEN <<>>
    ELSE CatEnds(rest, s, Head(ends)) \o CatContinue(Tail(ends), rest, s)

OrEnds(parts, s, i) ==
    IF parts = <<>> THEN <<>>
    ELSE Ends(Head(parts), s, i) \o OrEnds(Tail(parts), s, i)

\* n repetitions are done; one more is tried before stopping (greedy)
RepEnds(r, s, i, n) ==
    LET stop == IF n >= r.lo THEN <<i>> ELSE <<>>
    IN IF r.hi >= 0 /\ n = r.hi THEN stop
       ELSE RepContinue(SelectSeq(Ends(r.body, s, i), LAMBDA j : j > i), r, s, n + 1)
                \o stop

RepContinue(ends, r, s, n) ==
    IF ends = <<>> THEN <<>>
    ELSE RepEnds(r, s, Head(ends), n) \o RepContinue(Tail(ends), r, s, n)

\* bool(re.match(pattern, s))
ReMatch(r, s) == Ends(r, s, 1) # <<>>

\* bool(re.search(pattern, s))
ReFind(r, s) == \E i \in 1..(Len(s) + 1) : Ends(r, s, i) # <<>>

\* len(re.findall(pattern, s)) for a pattern that matches no empty string: the
\* leftmost match from pos on, then on from its end
RECURSIVE CountMatches(_, _, _)
CountMatches(r, s, pos) ==
    LET starts == {i \in pos..(Len(s) + 1) : Ends(r, s, i) # <<>>}
    IN IF starts = {} THEN 0
       ELSE LET i == SetMin(starts)
                e == Head(Ends(r, s, i))
            IN 1 + CountMatches(r, s, IF e > i THEN e ELSE i + 1)

ReFindAll(r, s) == CountMatches(r, s, 1)

---------------------------------------------------------------------------
(* Weighted Section Classifier: _get_section_context of extrair/chunks.py.   *)
(* Scores are kept in tenths (0.3 is 3, 0.5 is 5, the threshold 1 is 10).    *)

\* header_indicators (lines 561-565)
header_indicators ==
    <<<<"c", "o", "n", "f", "i", "d", "e", "n", "t", "i", "a", "l">>,
     <<"m", "e", "m", "o", "r", "a", "n", "d", "u", "m">>,
     <<"p", "r", "o", "s", "p", "e", "c", "t", "u", "s">>,
     <<"o", "f", "f", "e", "r", "i", "n", "g">>, <<"c", "i", "r", "c", "u", "l", "a", "r">>,
     <<"a", "n", "n", "u", "a", "l", " ", "r", "e", "p", "o", "r", "t">>,
     <<"i", "n", "t", "e", "r", "i", "m", " ", "r", "e", "p", "o", "r", "t">>,
     <<"q", "u", "a", "r", "t", "e", "r", "l", "y", " ", "r", "e", "p", "o", "r", "t">>,
     <<"h", "a", "l", "f", " ", "y", "e", "a", "r">>,
     <<"p", "r", "i", "v", "a", "t", "e", " ", "p", "l", "a", "c", "e", "m", "e", "n", "t">>,
     <<"s", "u", "p", "p", "l", "e", "m", "e", "n", "t">>,
     <<"a", "d", "d", "e", "n", "d", "u", "m">>, <<"a", "m", "e", "n", "d", "m", "e", "n", "t">>>>

\* summary_indicators (lines 578-581)
summary_indicators ==
    <<<<"e", "x", "e", "c", "u", "t", "i", "v", "e", " ", "s", "u", "m", "m", "a", "r", "y">>,
     <<"o", "v", "e", "r", "v", "i", "e", "w">>,
     <<"h", "i", "g", "h", "l", "i", "g", "h", "t", "s">>,
     <<"k", "e", "y", " ", "p", "o", "i", "n", "t", "s">>,
     <<"s", "u", "m", "m", "a", "r", "y">>,
     <<"i", "n", "t", "r", "o", "d", "u", "c", "t", "i", "o", "n">>,
     <<"a", "t", " ", "a", " ", "g", "l", "a", "n", "c", "e">>,
     <<"s", "n", "a", "p", "s", "h", "o", "t">>>>

\* investment_indicators (lines 606-611)
investment_indicators ==
    <<<<"i", "n", "v", "e", "s", "t", "m", "e", "n", "t">>,
     <<"p", "o", "r", "t", "f", "o", "l", "i", "o">>, <<"f", "u", "n", "d">>,
     <<"a", "s", "s", "e", "t">>, <<"a", "l", "l", "o", "c", "a", "t", "i", "o", "n">>,
     <<"s", "t", "r", "a", "t", "e", "g", "y">>, <<"m", "a", "n", "a", "g", "e", "r">>,
     <<"m", "a", "n", "a", "g", "e", "m", "e", "n", "t">>,
     <<"p", "e", "r", "f", "o", "r", "m", "a", "n", "c", "e">>,
     <<"r", "e", "t", "u", "r", "n", "s">>, <<"b", "e", "n", "c", "h", "m", "a", "r", "k">>,
     <<"e", "q", "u", "i", "t", "y">>,
     <<"f", "i", "x", "e", "d", " ", "i", "n", "c", "o", "m", "e">>,
     <<"a", "l", "t", "e", "r", "n", "a", "t", "i", "v", "e">>,
     <<"d", "e", "r", "i", "v", "a", "t", "i", "v", "e">>, <<"h", "e", "d", "g", "e">>,
     <<"l", "o", "n", "g">>, <<"s", "h", "o", "r", "t">>,
     <<"p", "o", "s", "i", "t", "i", "o", "n">>, <<"h", "o", "l", "d", "i", "n", "g">>,
     <<"s", "e", "c", "u", "r", "i", "t", "y">>,
     <<"i", "n", "s", "t", "r", "u", "m", "e", "n", "t">>>>

\* risk_indicators (lines 617-622)
risk_indicators ==
    <<<<"r", "i", "s", "k">>, <<"w", "a", "r", "n", "i", "n", "g">>,
     <<"c", "a", "u", "t", "i", "o", "n">>,
     <<"d", "i", "s", "c", "l", "a", "i", "m", "e", "r">>,
     <<"l", "i", "m", "i", "t", "a", "t", "i", "o", "n">>,
     <<"u", "n", "c", "e", "r", "t", "a", "i", "n", "t", "y">>,
     <<"v", "o", "l", "a", "t", "i", "l", "e">>, <<"l", "o", "s", "s">>,
     <<"a", "d", "v", "e", "r", "s", "e">>,
     <<"f", "l", "u", "c", "t", "u", "a", "t", "i", "o", "n">>,
     <<"m", "a", "r", "k", "e", "t", " ", "r", "i", "s", "k">>,
     <<"c", "r", "e", "d", "i", "t", " ", "r", "i", "s", "k">>,
     <<"l", "i", "q", "u", "i", "d", "i", "t", "y", " ", "r", "i", "s", "k">>,
     <<"o", "p", "e", "r", "a", "t", "i", "o", "n", "a", "l", " ", "r", "i", "s", "k">>,
     <<"c", "o", "n", "c", "e", "n", "t", "r", "a", "t", "i", "o", "n", " ", "r", "i", "s", "k">>,
     <<"c", "u", "r", "r", "e", "n", "c", "y", " ", "r", "i", "s", "k">>,
     <<"i", "n", "t", "e", "r", "e", "s", "t", " ", "r", "a", "t", "e", " ", "r", "i", "s", "k">>>>

\* disclaimer_patterns (lines 628-631)
disclaimer_patterns ==
    <<<<"p", "a", "s", "t", " ", "p", "e", "r", "f", "o", "r", "m", "a", "n", "c", "e">>,
     <<"n", "o", "t", " ", "g", "u", "a", "r", "a", "n", "t", "e", "e">>,
     <<"m", "a", "y", " ", "l", "o", "s", "e">>,
     <<"n", "o", " ", "a", "s", "s", "u", "r", "a", "n", "c", "e">>,
     <<"s", "h", "o", "u", "l", "d", " ", "n", "o", "t", " ", "r", "e", "l", "y">>,
     <<"c", "o", "n", "s", "u", "l", "t">>, <<"a", "d", "v", "i", "s", "o", "r">>,
     <<"p", "r", "o", "f", "e", "s", "s", "i", "o", "n", "a", "l", " ", "a", "d", "v", "i", "c", "e">>>>

\* legal_indicators (lines 637-642)
legal_indicators ==
    <<<<"l", "e", "g", "a", "l">>, <<"r", "e", "g", "u", "l", "a", "t", "o", "r", "y">>,
     <<"c", "o", "m", "p", "l", "i", "a", "n", "c", "e">>,
     <<"r", "e", "g", "u", "l", "a", "t", "i", "o", "n">>, <<"l", "a", "w">>,
     <<"s", "t", "a", "t", "u", "t", "e">>, <<"s", "e", "c">>, <<"c", "f", "t", "c">>,
     <<"f", "i", "n", "r", "a">>, <<"m", "i", "f", "i", "d">>, <<"u", "c", "i", "t", "s">>,
     <<"a", "i", "f", "m", "d">>, <<"f", "a", "t", "c", "a">>, <<"t", "a", "x">>,
     <<"t", "a", "x", "a", "t", "i", "o", "n">>,
     <<"w", "i", "t", "h", "h", "o", "l", "d", "i", "n", "g">>,
     <<"j", "u", "r", "i", "s", "d", "i", "c", "t", "i", "o", "n">>,
     <<"g", "o", "v", "e", "r", "n", "i", "n", "g", " ", "l", "a", "w">>,
     <<"l", "i", "t", "i", "g", "a", "t", "i", "o", "n">>,
     <<"p", "r", "o", "c", "e", "e", "d", "i", "n", "g">>, <<"a", "u", "d", "i", "t">>,
     <<"e", "x", "a", "m", "i", "n", "a", "t", "i", "o", "n">>>>

\* governance_indicators (lines 648-652)
governance_indicators ==
    <<<<"b", "o", "a", "r", "d">>, <<"d", "i", "r", "e", "c", "t", "o", "r">>,
     <<"g", "o", "v", "e", "r", "n", "a", "n", "c", "e">>,
     <<"c", "o", "m", "m", "i", "t", "t", "e", "e">>,
     <<"s", "h", "a", "r", "e", "h", "o", "l", "d", "e", "r">>,
     <<"v", "o", "t", "i", "n", "g">>, <<"e", "l", "e", "c", "t", "i", "o", "n">>,
     <<"a", "p", "p", "o", "i", "n", "t", "m", "e", "n", "t">>,
     <<"r", "e", "m", "u", "n", "e", "r", "a", "t", "i", "o", "n">>,
     <<"c", "o", "m", "p", "e", "n", "s", "a", "t", "i", "o", "n">>,
     <<"i", "n", "d", "e", "p", "e", "n", "d", "e", "n", "c", "e">>,
     <<"o", "v", "e", "r", "s", "i", "g", "h", "t">>,
     <<"f", "i", "d", "u", "c", "i", "a", "r", "y">>,
     <<"s", "t", "e", "w", "a", "r", "d", "s", "h", "i", "p">>>>

\* performance_indicators (lines 658-662)
performance_indicators ==
    <<<<"r", "e", "t", "u", "r", "n">>, <<"y", "i", "e", "l", "d">>, <<"g", "a", "i", "n">>,
     <<"l", "o", "s", "s">>, <<"o", "u", "t", "p", "e", "r", "f", "o", "r", "m">>,
     <<"u", "n", "d", "e", "r", "p", "e", "r", "f", "o", "r", "m">>,
     <<"b", "e", "n", "c", "h", "m", "a", "r", "k">>, <<"a", "l", "p", "h", "a">>,
     <<"b", "e", "t", "a">>, <<"s", "h", "a", "r", "p", "e">>,
     <<"v", "o", "l", "a", "t", "i", "l", "i", "t", "y">>,
     <<"t", "r", "a", "c", "k", "i", "n", "g">>,
     <<"a", "t", "t", "r", "i", "b", "u", "t", "i", "o", "n">>,
     <<"c", "o", "n", "t", "r", "i", "b", "u", "t", "i", "o", "n">>,
     <<"d", "r", "a", "w", "d", "o", "w", "n">>, <<"r", "e", "c", "o", "v", "e", "r", "y">>>>


\* the legal-form marks of the structural header test (line 571-573)
company_marks ==
    <<<<"L", "T", "D">>, <<"L", "L", "C">>, <<"I", "N", "C">>, <<"C", "O", "R", "P">>,
      <<"S", "A">>, <<"G", "M", "B", "H">>, <<"P", "L", "C">>, <<"N", "V">>>>

\* financial_patterns (lines 588-597), compiled with re.IGNORECASE
financial_patterns == <<
    \* r'\$[\d,]+(?:\.\d{2})?(?:\s*million|\s*billion|\s*thousand)?'
    Cat(<<Ch({"$"}), Rep(Ch(Digits \cup {","}), 1, -1),
          Rep(Cat(<<Ch({"."}), Rep(Ch(Digits), 2, 2)>>), 0, 1),
          Rep(Or(<<Cat(<<Rep(Ch(Whitespace), 0, -1), NoCase(<<"m", "i", "l", "l", "i", "o", "n">>)>>),
                     Cat(<<Rep(Ch(Whitespace), 0, -1), NoCase(<<"b", "i", "l", "l", "i", "o", "n">>)>>),
                     Cat(<<Rep(Ch(Whitespace), 0, -1), NoCase(<<"t", "h", "o", "u", "s", "a", "n", "d">>)>>)>>), 0, 1)>>),
    \* r'[\d,]+\.\d+%'
    Cat(<<Rep(Ch(Digits \cup {","}), 1, -1), Ch({"."}), Rep(Ch(Digits), 1, -1), Ch({"%"})>>),
    \* r'\b\d{1,3}(?:,\d{3})+\b'
    Cat(<<WordBoundary, Rep(Ch(Digits), 1, 3),
          Rep(Cat(<<Ch({","}), Rep(Ch(Digits), 3, 3)>>), 1, -1), WordBoundary>>),
    \* r'USD|EUR|GBP|JPY|CHF|AUD|CAD'
    Or(<<NoCase(<<"U", "S", "D">>),
         NoCase(<<"E", "U", "R">>),
         NoCase(<<"G", "B", "P">>),
         NoCase(<<"J", "P", "Y">>),
         NoCase(<<"C", "H", "F">>),
         NoCase(<<"A", "U", "D">>),
         NoCase(<<"C", "A", "D">>)>>),
    \* r'\(\$?[\d,]+\)'
    Cat(<<Ch({"("}), Rep(Ch({"$"}), 0, 1), Rep(Ch(Digits \cup {","}), 1, -1), Ch({")"})>>),
    \* r'NAV|AUM|Assets Under Management'
    Or(<<NoCase(<<"N", "A", "V">>),
         NoCase(<<"A", "U", "M">>),
         NoCase(<<"A", "s", "s", "e", "t", "s", " ", "U", "n", "d", "e", "r", " ", "M", "a", "n", "a", "g", "e", "m", "e", "n", "t">>)>>),
    \* r'basis points|bps'
    Or(<<NoCase(<<"b", "a", "s", "i", "s", " ", "p", "o", "i", "n", "t", "s">>),
         NoCase(<<"b", "p", "s">>)>>),
    \* r'P/E|ROE|ROA|EBITDA|WACC'
    Or(<<NoCase(<<"P", "/", "E">>),
         NoCase(<<"R", "O", "E">>),
         NoCase(<<"R", "O", "A">>),
         NoCase(<<"E", "B", "I", "T", "D", "A">>),
         NoCase(<<"W", "A", "C", "C">>)>>)>>

\* contact_patterns (lines 668-673), searched with re.IGNORECASE
contact_patterns == <<
    \* r'www\.[\w\.-]+\.com'
    Cat(<<NoCase(<<"w", "w", "w">>), Ch({"."}), Rep(Ch(WordChars \cup {".", "-"}), 1, -1),
          Ch({"."}), NoCase(<<"c", "o", "m">>)>>),
    \* r'[\w\.-]+@[\w\.-]+\.\w+'
    Cat(<<Rep(Ch(WordChars \cup {".", "-"}), 1, -1), Ch({"@"}),
          Rep(Ch(WordChars \cup {".", "-"}), 1, -1), Ch({"."}), Rep(Ch(WordChars), 1, -1)>>),
    \* r'\+?\d{1,4}[-.\s]?\d{3,4}[-.\s]?\d{4,6}'
    Cat(<<Rep(Ch({"+"}), 0, 1), Rep(Ch(Digits), 1, 4),
          Rep(Ch({"-", "."} \cup Whitespace), 0, 1), Rep(Ch(Digits), 3, 4),
          Rep(Ch({"-", "."} \cup Whitespace), 0, 1), Rep(Ch(Digits), 4, 6)>>),
    \* r'address|contact|phone|email|website|fax'
    Or(<<NoCase(<<"a", "d", "d", "r", "e", "s", "s">>),
         NoCase(<<"c", "o", "n", "t", "a", "c", "t">>),
         NoCase(<<"p", "h", "o", "n", "e">>),
         NoCase(<<"e", "m", "a", "i", "l">>),
         NoCase(<<"w", "e", "b", "s", "i", "t", "e">>),
         NoCase(<<"f", "a", "x">>)>>)>>

\* r'\b\d+(?:\.\d+)?\b' of the number density
number_pattern ==
    Cat(<<WordBoundary, Rep(Ch(Digits), 1, -1),
          Rep(Cat(<<Ch({"."}), Rep(Ch(Digits), 1, -1)>>), 0, 1), WordBoundary>>)

\* sum(1 for indicator in indicators if indicator in text)
CountIn(indicators, text) ==
    Cardinality({n \in 1..Len(indicators) : Occurs(indicators[n], text)})

\* min(count * weight, limit), in tenths
Capped(count, weight, limit) ==
    IF count * weight < limit THEN count * weight ELSE limit

\* RECURSIVE sum of len(re.findall(pattern, content, re.IGNORECASE))
RECURSIVE SumMatches(_, _)
SumMatches(patterns, text) ==
    IF patterns = <<>> THEN 0
    ELSE ReFindAll(Head(patterns), text) + SumMatches(Tail(patterns), text)

\* context_scores when the final decision is taken, in declaration order
context_scores(text) ==
    LET content_upper == Upper(text)
        content_clean == Join(Words(text), <<" ">>)
        financial_matches == SumMatches(financial_patterns, text)
        contact_matches ==
            Cardinality({n \in 1..Len(contact_patterns) : ReFind(contact_patterns[n], text)})
        words == Len(Words(text))
        \* number_density > 0.1
        dense == 10 * ReFindAll(number_pattern, text) > (IF words > 1 THEN words ELSE 1)
        company == Len(content_clean) < 200
                       /\ \E n \in 1..Len(company_marks) :
                              Occurs(company_marks[n], content_upper)
    IN <<[context |-> "document_header",
          score |-> 30 * CountIn(header_indicators, content_upper)
                        + (IF company THEN 20 ELSE 0)
                        + (IF Len(content_clean) < 100 THEN 10 ELSE 0)],
         [context |-> "executive_summary",
          score |-> 20 * CountIn(summary_indicators, content_upper)],
         [context |-> "financial_data",
          score |-> Capped(financial_matches, 5, 30) + (IF dense THEN 10 ELSE 0)],
         [context |-> "investment_content",
          score |-> Capped(CountIn(investment_indicators, content_upper), 3, 30)],
         [context |-> "risk_section",
          score |-> Capped(CountIn(risk_indicators, content_upper), 4, 30)
                        + Capped(CountIn(disclaimer_patterns, content_upper), 5, 20)],
         [context |-> "legal_regulatory",
          score |-> Capped(CountIn(legal_indicators, content_upper), 4, 30)],
         [context |-> "governance",
          score |-> Capped(CountIn(governance_indicators, content_upper), 4, 30)],
         [context |-> "contact_info",
          score |-> Capped(contact_matches, 5, 20)],
         [context |-> "performance_data",
          score |-> Capped(CountIn(performance_indicators, content_upper), 3, 30)
                        + (IF dense THEN 10 ELSE 0)],
         [context |-> "general_content",
          score |-> IF Len(content_clean) >= 100 /\ Len(content_clean) > 1000
                    THEN 10 ELSE 0]>>

\* (mutant) on a tie the category declared last wins
final_context_last_wins(scores) ==
    LET max_score == SetMax({scores[n].score : n \in 1..Len(scores)})
    IN IF max_score < 10 THEN "general_content"
       ELSE scores[SetMax({n \in 1..Len(scores) : scores[n].score = max_score})].context

\* step 12 of _get_section_context: the final decision
final_context(scores) ==
    LET max_score == SetMax({scores[n].score : n \in 1..Len(scores)})
    IN IF max_score < 10 THEN "general_content"
       ELSE scores[SetMin({n \in 1..Len(scores) : scores[n].score = max_score})].context

\* (mutant) a classifier that remembers it was called: later calls fall back
get_section_context_once(text) ==
    IF classified = <<>>
    THEN [category |-> final_context(context_scores(text)), scores |-> context_scores(text)]
    ELSE [category |-> "general_content", scores |-> context_scores(text)]

\* _get_section_context: the category, and the scores it was decided from
get_section_context(text) ==
    [category |-> final_context(context_scores(text)), scores |-> context_scores(text)]

---------------------------------------------------------------------------
(* Fund lookup and command line: get_fund_info_from_sql and main of          *)
(* chunks2.py and extrair/chunkscompleto.py. An optional value is a sequence *)
(* of at most one element, the empty one being None.                         *)

\* str(n) for an integer
IntStr(n) == IF n < 0 THEN <<"-">> \o Str(-n) ELSE Str(n)

\* str.isdigit() on ASCII text
IsDigit(s) == s # <<>> /\ \A i \in 1..Len(s) : s[i] \in Digits

\* the value of a string of digits
RECURSIVE NatOf(_)
NatOf(s) ==
    IF s = <<>> THEN 0
    ELSE 10 * NatOf(SubSeq(s, 1, Len(s) - 1))
             + (CHOOSE d \in 0..9 : Digit[d + 1] = s[Len(s)])

\* int(s): blanks around, a sign, digits; <<>> stands for ValueError (digit
\* groups joined by "_" are accepted by int() and are not among the arguments)
ParseInt(s) ==
    LET t == Strip(s)
        signed == t # <<>> /\ t[1] \in {"+", "-"}
        digits == IF signed THEN Tail(t) ELSE t
    IN IF ~IsDigit(digits) THEN <<>>
       ELSE IF signed /\ t[1] = "-" THEN <<-NatOf(digits)>> ELSE <<NatOf(digits)>>

\* "if map_id:" for an optional integer: None and 0 are false
HasKey(id) == id # <<>> /\ id[1] # 0

\* "if fund_identifier:" for an optional string: None and "" are false
HasText(identifier) == identifier # <<>> /\ identifier[1] # <<>>

\* the query text before any WHERE clause
base_query ==
    <<"\n", " ", " ", " ", " ", " ", " ", " ", " ", "S", "E", "L", "E", "C", "T", " ",
      "M", "a", "p", "I", "D", ",", " ", "M", "g", "t", "C", "o", "m", "p", "a", "n",
      "y", ",", " ", "F", "u", "n", "d", "N", "a", "m", "e", ",", " ", "F", "u", "n",
      "d", "S", "h", "o", "r", "t", "N", "a", "m", "e", ",", " ", "A", "s", "s", "e",
      "t", "C", "l", "a", "s", "s", "R", "e", "p", "o", "r", "t", ",", " ", "R", "e",
      "t", "u", "r", "n", "_", "C", "u", "r", "r", "e", "n", "c", "y", " ", "\n", " ",
      " ", " ", " ", " ", " ", " ", " ", "F", "R", "O", "M", " ", "C", "o", "r", "e",
      ".", "T", "b", "l", "_", "D", "i", "m", "_", "F", "u", "n", "d", "I", "n", "f",
      "o", "r", "m", "a", "t", "i", "o", "n", "M", "a", "p", "p", "i", "n", "g", "\n",
      " ", " ", " ", " ", " ", " ", " ", " ">>

\* f" WHERE MapID = {map_id}"
key_clause(id) ==
    <<" ", "W", "H", "E", "R", "E", " ", "M", "a", "p", "I", "D", " ", "=", " ">> \o IntStr(id)

\* the WHERE clause with the three LIKE tests on the identifier
identifier_clause(identifier) ==
    <<"\n", " ", " ", " ", " ", " ", " ", " ", " ", " ", " ", " ", " ", "W", "H", "E",
      "R", "E", " ", "F", "u", "n", "d", "N", "a", "m", "e", " ", "L", "I", "K", "E",
      " ", "'", "%">> \o identifier
    \o <<"%", "'", " ", "\n", " ", " ", " ", " ", " ", " ", " ", " ", " ", " ", " ", " ",
         " ", " ", " ", "O", "R", " ", "F", "u", "n", "d", "S", "h", "o", "r", "t", "N",
         "a", "m", "e", " ", "L", "I", "K", "E", " ", "'", "%">> \o identifier
    \o <<"%", "'", "\n", " ", " ", " ", " ", " ", " ", " ", " ", " ", " ", " ", " ", " ",
         " ", " ", "O", "R", " ", "M", "g", "t", "C", "o", "m", "p", "a", "n", "y", " ",
         "L", "I", "K", "E", " ", "'", "%">> \o identifier
    \o <<"%", "'", "\n", " ", " ", " ", " ", " ", " ", " ", " ", " ", " ", " ", " ">>

\* the query get_fund_info_from_sql sends
fund_query(identifier, id) ==
    IF HasKey(id) THEN base_query \o key_clause(id[1])
    ELSE IF HasText(identifier) THEN base_query \o identifier_clause(identifier[1])
    ELSE base_query

\* what get_data_from_sql returns: rows, no row, or None after a caught error
LookupOutcomes == {"found", "no_row", "unreachable"}

\* the first row of a non-empty answer
selected_row == [MapID |-> 7, FundName |-> <<"A", "c", "m", "e">>]

\* the dictionary get_fund_info_from_sql returns; extrair/chunkscompleto.py adds
\* the search criteria, and the query when a row was found
fund_info_from_sql(program, identifier, id, outcome) ==
    LET criteria == IF program = "chunkscompleto"
                    THEN [search_criteria |-> [map_id |-> id, fund_identifier |-> identifier]]
                    ELSE [x \in {} |-> x]
        used == IF program = "chunkscompleto"
                THEN [query_used |-> fund_query(identifier, id)]
                ELSE [x \in {} |-> x]
    IN IF outcome \in {"no_row", "unreachable"}
       THEN [sql_data_available |-> FALSE,
             error |-> "No data found in database"] @@ criteria
       ELSE [sql_data_available |-> TRUE, map_id |-> selected_row.MapID,
             fund_name |-> selected_row.FundName] @@ used @@ criteria

\* sys.argv[i]
Arg(i) == argv[i + 1]

\* the chunk _create_chunks_from_pymupdf closes at a size boundary
pymupdf_boundary_chunk(acc) ==
    [id |-> chunk_label(Len(acc.chunks) + 1),
     content |-> Strip(acc.current_chunk),
     word_count |-> WordCount(acc.current_chunk),
     char_count |-> Len(acc.current_chunk),
     pages |-> acc.pages,
     elements |-> acc.elements,
     content_types |-> acc.content_types,
     structural_confidence |-> 6,      \* 0.6, in tenths
     section_title |-> <<>>,
     section_type |-> "unknown",
     section_level |-> 0,
     position_in_section |-> "unknown",
     hierarchy_path |-> <<>>,
     document_position |-> <<"~">> \o Str(Len(acc.chunks) * 10)
                               \o <<"%", " ", "d", "o", " ", "d", "o", "c", "u", "m", "e", "n", "t", "o">>]

\* the chunk _create_chunks_from_pymupdf closes at the end of the input: its
\* metadata is current_metadata as it stands, pages, elements and content types
pymupdf_last_chunk(acc) ==
    [id |-> chunk_label(Len(acc.chunks) + 1),
     content |-> Strip(acc.current_chunk),
     pages |-> acc.pages,
     elements |-> acc.elements,
     content_types |-> acc.content_types,
     section_title |-> <<>>,
     section_type |-> "unknown"]

\* the body of the block loop of _create_chunks_from_pymupdf
pymupdf_block(acc, page_number, block) ==
    LET boundary == /\ Len(acc.current_chunk) + Len(block.content) > chunk_size
                    /\ Len(acc.current_chunk) > min_chunk_size
        open == IF boundary
                THEN [chunks |-> Append(acc.chunks, pymupdf_boundary_chunk(acc)),
                      current_chunk |-> get_overlap_content(acc.current_chunk),
                      pages |-> <<page_number>>,
                      elements |-> <<block.id>>,
                      content_types |-> <<block.type>>]
                ELSE acc
    IN [chunks |-> open.chunks,
        current_chunk |-> (IF open.current_chunk # <<>>
                           THEN open.current_chunk \o <<"\n", "\n">> ELSE <<>>)
                              \o block.content,
        pages |-> AppendNew(open.pages, page_number),
        elements |-> Append(open.elements, block.id),
        content_types |-> AppendNew(open.content_types, block.type)]

\* the two loops of _create_chunks_from_pymupdf from block j of page p on
RECURSIVE pymupdf_loop(_, _, _, _)
pymupdf_loop(acc, pages, p, j) ==
    IF p > Len(pages) THEN acc
    ELSE IF j > Len(pages[p].structured_blocks) THEN pymupdf_loop(acc, pages, p + 1, 1)
    ELSE pymupdf_loop(pymupdf_block(acc, pages[p].page_number,
                                    pages[p].structured_blocks[j]), pages, p, j + 1)

\* _create_chunks_from_pymupdf
create_chunks_from_pymupdf(pages) ==
    LET acc == pymupdf_loop([chunks |-> <<>>, current_chunk |-> <<>>, pages |-> <<>>,
                             elements |-> <<>>, content_types |-> <<>>], pages, 1, 1)
    IN IF Strip(acc.current_chunk) # <<>>
       THEN Append(acc.chunks, pymupdf_last_chunk(acc))
       ELSE acc.chunks

\* create_structured_chunks(None, all_elements): the structural extraction gave
\* nothing, the page scan is used when there is a page, and the chunks are
\* enriched
structured_chunks(pages) ==
    LET list == IF pages # <<>> THEN create_chunks_from_pymupdf(pages) ELSE <<>>
    IN [i \in 1..Len(list) |-> enrich_chunk(list, i)]

RECURSIVE total_words(_)
total_words(list) ==
    IF list = <<>> THEN 0 ELSE Head(list).word_count + total_words(Tail(list))

\* step 5 of extract_to_enhanced_chunks: the statistics read word_count and
\* structural_confidence of every chunk, and a missing key ends the run in the
\* handler that returns None (<<>>)
extracted(metadata, list) ==
    IF \E k \in 1..Len(list) :
           ~({"word_count", "structural_confidence"} \subseteq DOMAIN list[k])
    THEN <<>>
    ELSE <<[metadata |-> metadata,
            content_chunks |-> list,
            statistics |-> [total_chunks |-> Len(list),
                            total_words |-> total_words(list)]]>>

---------------------------------------------------------------------------
(* _determine_heading_level of chunks2.py. An element is a record; it has    *)
(* the attribute level when level is in its domain.                          *)

\* level1_patterns (with re.IGNORECASE), level2_patterns, level3_patterns
heading_level_patterns ==
    [level1 |-> <<
        \* r'^(EXECUTIVE\s+SUMMARY|INVESTMENT\s+OVERVIEW|FUND\s+OVERVIEW)$'
        Cat(<<Or(<<Cat(<<NoCase(<<"E", "X", "E", "C", "U", "T", "I", "V", "E">>), Rep(Ch(Whitespace), 1, -1), NoCase(<<"S", "U", "M", "M", "A", "R", "Y">>)>>),
                   Cat(<<NoCase(<<"I", "N", "V", "E", "S", "T", "M", "E", "N", "T">>), Rep(Ch(Whitespace), 1, -1), NoCase(<<"O", "V", "E", "R", "V", "I", "E", "W">>)>>),
                   Cat(<<NoCase(<<"F", "U", "N", "D">>), Rep(Ch(Whitespace), 1, -1), NoCase(<<"O", "V", "E", "R", "V", "I", "E", "W">>)>>)>>),
              EndOfText>>),
        \* r'^(CONTENTS?|TABLE\s+OF\s+CONTENTS?)$'
        Cat(<<Or(<<Cat(<<NoCase(<<"C", "O", "N", "T", "E", "N", "T">>), Rep(Ch({"S", "s"}), 0, 1)>>),
                   Cat(<<NoCase(<<"T", "A", "B", "L", "E">>), Rep(Ch(Whitespace), 1, -1), NoCase(<<"O", "F">>),
                         Rep(Ch(Whitespace), 1, -1), NoCase(<<"C", "O", "N", "T", "E", "N", "T">>),
                         Rep(Ch({"S", "s"}), 0, 1)>>)>>),
              EndOfText>>),
        \* r'^[IVX]{1,4}\.\s+'
        Cat(<<Rep(Ch({"I", "V", "X", "i", "v", "x"}), 1, 4), Ch({"."}),
              Rep(Ch(Whitespace), 1, -1)>>),
        \* r'^[A-Z\s]{3,20}$'
        Cat(<<Rep(Ch(Letters \cup Whitespace), 3, 20), EndOfText>>)>>,
     level2 |-> <<
        \* r'^\d+\.\s+[A-Z]'
        Cat(<<Rep(Ch(Digits), 1, -1), Ch({"."}), Rep(Ch(Whitespace), 1, -1),
              Ch({UpperCase[n] : n \in 1..26})>>),
        \* r'^[A-Z][a-z]+\s+[A-Z][a-z]+$'
        Cat(<<Ch({UpperCase[n] : n \in 1..26}), Rep(Ch({LowerCase[n] : n \in 1..26}), 1, -1),
              Rep(Ch(Whitespace), 1, -1),
              Ch({UpperCase[n] : n \in 1..26}), Rep(Ch({LowerCase[n] : n \in 1..26}), 1, -1),
              EndOfText>>)>>,
     level3 |-> <<
        \* r'^\d+\.\d+\s+'
        Cat(<<Rep(Ch(Digits), 1, -1), Ch({"."}), Rep(Ch(Digits), 1, -1),
              Rep(Ch(Whitespace), 1, -1)>>),
        \* r'^[a-z]\)\s+'
        Cat(<<Ch({LowerCase[n] : n \in 1..26}), Ch({")"}), Rep(Ch(Whitespace), 1, -1)>>)>>]

\* str.isupper(): a cased character, and no lower-case one
IsUpper(s) ==
    /\ \E i \in 1..Len(s) : \E n \in 1..26 : s[i] = UpperCase[n]
    /\ \A i \in 1..Len(s) : \A n \in 1..26 : s[i] # LowerCase[n]

\* _determine_heading_level
determine_heading_level(text, element) ==
    LET text_clean == Strip(text)
        matches(patterns) == \E n \in 1..Len(patterns) : ReMatch(patterns[n], text_clean)
    IN IF "level" \in DOMAIN element
       THEN (IF element.level < 6 THEN element.level ELSE 6)
       ELSE IF matches(heading_level_patterns.level1) THEN 1
       ELSE IF matches(heading_level_patterns.level2) THEN 2
       ELSE IF matches(heading_level_patterns.level3) THEN 3
       ELSE IF Len(Words(text_clean)) <= 4 /\ IsUpper(text_clean) THEN 2
       ELSE IF Len(Words(text_clean)) <= 8 THEN 3
       ELSE 4

---------------------------------------------------------------------------
(* Block types: _classify_block_type of extrair/chunks.py and of            *)
(* extrair/chunkscompleto.py. Texts are ASCII: the bullets and daggers      *)
(* outside ASCII that the patterns also name are left out.                  *)

\* text.startswith(prefix)
StartsWith(text, prefix) ==
    Len(text) >= Len(prefix) /\ SubSeq(text, 1, Len(prefix)) = prefix

\* _classify_block_type of extrair/chunks.py; font_info is the list of span fonts
classify_block_type(text, font_info) ==
    LET text_clean == Strip(text)
        text_upper == Upper(text_clean)
        ws == Ch(Whitespace)
        is_bold == font_info # <<>> /\ (font_info[1].flags \div 16) % 2 = 1
        \* sizes are in tenths of a point (round(size, 1))
        is_large_font == font_info # <<>> /\ font_info[1].size > 120
        \* matched with re.IGNORECASE
        heading_patterns == <<
            \* r'^[A-Z][A-Z\s&/\-:]{10,}$'
            Cat(<<Ch(Letters), Rep(Ch(Letters \cup Whitespace \cup {"&", "/", "-", ":"}), 10, -1),
                  EndOfText>>),
            \* r'^\d+\.\s*[A-Z]'
            Cat(<<Rep(Ch(Digits), 1, -1), Ch({"."}), Rep(ws, 0, -1), Ch(Letters)>>),
            \* r'^Chapter\s+\d+'
            Cat(<<NoCase(<<"C", "h", "a", "p", "t", "e", "r">>), Rep(ws, 1, -1), Rep(Ch(Digits), 1, -1)>>),
            \* r'^Section\s+[A-Z\d]'
            Cat(<<NoCase(<<"S", "e", "c", "t", "i", "o", "n">>), Rep(ws, 1, -1), Ch(Letters \cup Digits)>>),
            \* r'^[A-Z][a-z]+\s+(Statement|Report|Overview|Summary|Analysis)'
            Cat(<<Ch(Letters), Rep(Ch(Letters), 1, -1), Rep(ws, 1, -1),
                  Or(<<NoCase(<<"S", "t", "a", "t", "e", "m", "e", "n", "t">>),
                       NoCase(<<"R", "e", "p", "o", "r", "t">>),
                       NoCase(<<"O", "v", "e", "r", "v", "i", "e", "w">>),
                       NoCase(<<"S", "u", "m", "m", "a", "r", "y">>),
                       NoCase(<<"A", "n", "a", "l", "y", "s", "i", "s">>)>>)>>)>>
        title_indicators == <<
            <<"s", "t", "a", "t", "e", "m", "e", "n", "t">>,
            <<"r", "e", "p", "o", "r", "t">>,
            <<"o", "v", "e", "r", "v", "i", "e", "w">>,
            <<"s", "u", "m", "m", "a", "r", "y">>,
            <<"a", "n", "a", "l", "y", "s", "i", "s">>,
            <<"p", "e", "r", "f", "o", "r", "m", "a", "n", "c", "e">>,
            <<"p", "o", "r", "t", "f", "o", "l", "i", "o">>,
            <<"i", "n", "v", "e", "s", "t", "m", "e", "n", "t">>,
            <<"f", "u", "n", "d">>,
            <<"h", "o", "l", "d", "i", "n", "g", "s">>,
            <<"f", "i", "n", "a", "n", "c", "i", "a", "l">>,
            <<"r", "e", "s", "u", "l", "t", "s">>,
            <<"i", "n", "c", "o", "m", "e">>,
            <<"b", "a", "l", "a", "n", "c", "e">>,
            <<"c", "a", "s", "h", " ", "f", "l", "o", "w">>,
            <<"r", "i", "s", "k">>,
            <<"d", "i", "s", "c", "l", "o", "s", "u", "r", "e">>,
            <<"g", "o", "v", "e", "r", "n", "a", "n", "c", "e">>,
            <<"a", "u", "d", "i", "t">>,
            <<"c", "o", "m", "p", "l", "i", "a", "n", "c", "e">>>>
        list_patterns == <<
            \* r'^\s*[-...]\s+'
            Cat(<<Rep(ws, 0, -1), Ch({"-"}), Rep(ws, 1, -1)>>),
            \* r'^\s*\d+\.\s+'
            Cat(<<Rep(ws, 0, -1), Rep(Ch(Digits), 1, -1), Ch({"."}), Rep(ws, 1, -1)>>),
            \* r'^\s*\([a-zA-Z0-9]+\)\s+'
            Cat(<<Rep(ws, 0, -1), Ch({"("}), Rep(Ch(Letters \cup Digits), 1, -1), Ch({")"}),
                  Rep(ws, 1, -1)>>),
            \* r'^\s*[a-zA-Z]\.\s+'
            Cat(<<Rep(ws, 0, -1), Ch(Letters), Ch({"."}), Rep(ws, 1, -1)>>),
            \* r'^\s*[ivxlc]+\.\s+'
            Cat(<<Rep(ws, 0, -1), Rep(Ch({"i", "v", "x", "l", "c"}), 1, -1), Ch({"."}),
                  Rep(ws, 1, -1)>>)>>
        \* r'\b\d+(?:,\d{3})*(?:\.\d+)?%?\b'
        numbers == ReFindAll(
            Cat(<<WordBoundary, Rep(Ch(Digits), 1, -1),
                  Rep(Cat(<<Ch({","}), Rep(Ch(Digits), 3, 3)>>), 0, -1),
                  Rep(Cat(<<Ch({"."}), Rep(Ch(Digits), 1, -1)>>), 0, 1),
                  Rep(Ch({"%"}), 0, 1), WordBoundary>>), text_clean)
        has_tabs == \E i \in 1..Len(text_clean) : text_clean[i] = "\t"
        has_multiple_spaces == Occurs(<<" ", " ">>, text_clean)
        table_patterns == <<
            \* r'\$\s*[\d,]+(?:\.\d{2})?'
            Cat(<<Ch({"$"}), Rep(ws, 0, -1), Rep(Ch(Digits \cup {","}), 1, -1),
                  Rep(Cat(<<Ch({"."}), Rep(Ch(Digits), 2, 2)>>), 0, 1)>>),
            \* r'\d+\.\d+\s*%'
            Cat(<<Rep(Ch(Digits), 1, -1), Ch({"."}), Rep(Ch(Digits), 1, -1), Rep(ws, 0, -1),
                  Ch({"%"})>>),
            \* r'\(\d+\)'
            Cat(<<Ch({"("}), Rep(Ch(Digits), 1, -1), Ch({")"})>>),
            \* r'\d{4}\s+\d+\.\d+\s*%'
            Cat(<<Rep(Ch(Digits), 4, 4), Rep(ws, 1, -1), Rep(Ch(Digits), 1, -1), Ch({"."}),
                  Rep(Ch(Digits), 1, -1), Rep(ws, 0, -1), Ch({"%"})>>)>>
        table_matches ==
            Cardinality({n \in 1..Len(table_patterns) : ReFind(table_patterns[n], text_clean)})
        footnote_prefixes == <<
            <<"*">>,
            <<"N", "o", "t", "e", ":">>,
            <<"S", "e", "e", ":">>,
            <<"S", "o", "u", "r", "c", "e", ":">>>>
        \* the patterns are plain words, searched in text_upper after .upper()
        disclaimer_words == <<
            <<"p", "a", "s", "t", " ", "p", "e", "r", "f", "o", "r", "m", "a", "n", "c", "e">>,
            <<"n", "o", "t", " ", "a", " ", "g", "u", "a", "r", "a", "n", "t", "e", "e">>,
            <<"r", "i", "s", "k", " ", "o", "f", " ", "l", "o", "s", "s">>,
            <<"s", "e", "e", " ", "d", "i", "s", "c", "l", "a", "i", "m", "e", "r">>,
            <<"i", "m", "p", "o", "r", "t", "a", "n", "t", " ", "i", "n", "f", "o", "r", "m", "a", "t", "i", "o", "n">>,
            <<"f", "o", "r", " ", "m", "o", "r", "e", " ", "i", "n", "f", "o", "r", "m", "a", "t", "i", "o", "n">>>>
        \* r'^\s*\w+\s+\d{1,2},\s+\d{4}\s*$'
        date_pattern ==
            Cat(<<Rep(ws, 0, -1), Rep(Ch(WordChars), 1, -1), Rep(ws, 1, -1),
                  Rep(Ch(Digits), 1, 2), Ch({","}), Rep(ws, 1, -1), Rep(Ch(Digits), 4, 4),
                  Rep(ws, 0, -1), EndOfText>>)
        \* r'^https?://|^www\.|@.*\.com'
        contact_pattern ==
            Or(<<Cat(<<Ch({"h"}), Ch({"t"}), Ch({"t"}), Ch({"p"}), Rep(Ch({"s"}), 0, 1),
                       Ch({":"}), Ch({"/"}), Ch({"/"})>>),
                 Cat(<<Ch({"w"}), Ch({"w"}), Ch({"w"}), Ch({"."})>>),
                 Cat(<<Ch({"@"}), Rep(AnyChar, 0, -1), Ch({"."}), Ch({"c"}), Ch({"o"}),
                       Ch({"m"})>>)>>)
    IN IF text_clean = <<>> THEN "empty"
       ELSE IF Len(text_clean) < 10 THEN "label"
       ELSE IF ReMatch(Cat(<<Rep(ws, 0, -1), Rep(Ch(Digits), 1, -1), Rep(ws, 0, -1),
                             EndOfText>>), text_clean)
            THEN "page_number"
       ELSE IF is_bold /\ is_large_font THEN "heading"
       ELSE IF Len(text_clean) < 100 /\ IsUpper(text_clean) THEN "heading"
       ELSE IF \E n \in 1..Len(heading_patterns) : ReMatch(heading_patterns[n], text_clean)
            THEN "heading"
       ELSE IF /\ Len(text_clean) < 150
               /\ \E n \in 1..Len(title_indicators) :
                      Occurs(Upper(title_indicators[n]), text_upper)
            THEN "heading"
       ELSE IF \E n \in 1..Len(list_patterns) : ReMatch(list_patterns[n], text_clean)
            THEN "list_item"
       ELSE IF numbers > 2 /\ (has_tabs \/ has_multiple_spaces) THEN "table_data"
       ELSE IF table_matches >= 2 THEN "table_data"
       ELSE IF /\ Len(text_clean) < 300
               /\ \E n \in 1..Len(footnote_prefixes) :
                      StartsWith(text_clean, footnote_prefixes[n])
            THEN "footnote"
       ELSE IF /\ Len(text_clean) < 500
               /\ \E n \in 1..Len(disclaimer_words) :
                      Occurs(Upper(disclaimer_words[n]), text_upper)
            THEN "disclaimer"
       ELSE IF Len(text_clean) > 200 THEN "paragraph"
       ELSE IF Len(text_clean) > 50 THEN "text_block"
       ELSE IF ReMatch(date_pattern, text_clean) THEN "date"
       ELSE IF ReMatch(contact_pattern, text_clean) THEN "contact_info"
       ELSE "text_block"

\* _classify_block_type of extrair/chunkscompleto.py
classify_block_type_completo(text, font_info) ==
    LET text_upper == Upper(text)
        ws == Ch(Whitespace)
        keywords == <<
            <<"C", "O", "N", "F", "I", "D", "E", "N", "T", "I", "A", "L">>,
            <<"M", "E", "M", "O", "R", "A", "N", "D", "U", "M">>,
            <<"F", "U", "N", "D">>,
            <<"N", "O", "T", "I", "C", "E">>,
            <<"R", "E", "G", "U", "L", "A", "T", "O", "R", "Y">>>>
        \* r'\b\d+\b'
        numbers == ReFindAll(Cat(<<WordBoundary, Rep(Ch(Digits), 1, -1), WordBoundary>>), text)
    IN IF \E n \in 1..Len(keywords) : Occurs(keywords[n], text_upper) THEN "heading"
       \* r'^\s*[-...]\s+' or r'^\s*\d+\.\s+'
       ELSE IF \/ ReMatch(Cat(<<Rep(ws, 0, -1), Ch({"-"}), Rep(ws, 1, -1)>>), text)
               \/ ReMatch(Cat(<<Rep(ws, 0, -1), Rep(Ch(Digits), 1, -1), Ch({"."}),
                                Rep(ws, 1, -1)>>), text)
            THEN "list_item"
       ELSE IF /\ numbers > 3
               /\ \/ \E i \in 1..Len(text) : text[i] = "\t"
                  \/ Occurs(<<" ", " ">>, text)
            THEN "table_data"
       ELSE IF /\ Len(text) < 200
               /\ \/ StartsWith(text, <<"*">>)
                  \/ StartsWith(text, <<"N", "o", "t", "e", ":">>)
            THEN "footnote"
       ELSE IF Len(text) > 100 THEN "paragraph"
       ELSE "text_block"

---------------------------------------------------------------------------
(* Inputs *)

\* an element as _process_docling_element emits it: content stripped, 3+ chars
\* elements as _process_docling_element returns them: confidence 0.9, in tenths
Paragraph(text) ==
    [type |-> "paragraph", content |-> text, level |-> 0, page |-> 1, confidence |-> 9]
Heading(text, lvl) ==
    [type |-> "heading", content |-> text, level |-> lvl, page |-> 1, confidence |-> 9]

SeqsUpTo(S, n) == UNION {[1..k -> S] : k \in 0..n}

Repeat(ch, n) == [i \in 1..n |-> ch]

\* element contents of the general family: plain text, a sentence end inside
\* the text, a longer text with a blank inside, a text ending in a sentence end
ElementPool ==
    {Paragraph(<<"a", "a", "a">>),
     Paragraph(<<"a", ".", " ", "b">>),
     Paragraph(<<"b", " ", "c", "c", "c", "c">>),
     Paragraph(<<"e", "e", "!">>),
     Heading(<<"H", "h", "h">>, 1),
     Heading(<<"G", "g", "g">>, 2)}

Config(cs, ov, mn) == [chunk_size |-> cs, overlap |-> ov, min_chunk_size |-> mn]

\* chunk_size, overlap, min_chunk_size: every overlap (0 included) with a small
\* and a large chunk_size, min_chunk_size below and above the shortest element
ConfigPool ==
    {Config(5, 0, 1), Config(5, 2, 1), Config(5, 4, 4),
     Config(9, 0, 4), Config(9, 2, 4), Config(9, 4, 1)}

\* Scenario A: a level-1 heading and one paragraph of 83 chars
ScenarioA ==
    [cfg |-> Config(50, 10, 5),
     pages |-> <<>>,
     blocks |-> <<Heading(<<"H", "e", "a", "d", "i", "n", "g", " ", "O", "n", "e">>, 1),
                  Paragraph(<<"T", "h", "i", "s", " ", "i", "s", " ", "a", " ", "s", "h", "o", "r", "t", " ", "p", "a", "r", "a", "g", "r", "a", "p", "h", " ", "a", "b", "o", "u", "t", " ", "r", "i", "s", "k", " ", "a", "n", "d", " ", "w", "a", "r", "n", "i", "n", "g", " ", "d", "i", "s", "c", "l", "o", "s", "u", "r", "e", "s", " ", "t", "h", "a", "t", " ", "i", "s", " ", "s", "o", "m", "e", "w", "h", "a", "t", " ", "l", "o", "n", "g", ".">>)>>]

\* Scenario C: a single element of 500 chars, chunk_size 100
ScenarioC ==
    [cfg |-> Config(100, 20, 50), pages |-> <<>>,
     blocks |-> <<Paragraph(Repeat("x", 500))>>]

\* Scenario E: two elements of 60 chars each
ScenarioE ==
    [cfg |-> Config(100, 20, 50), pages |-> <<>>,
     blocks |-> <<Paragraph(Repeat("p", 60)), Paragraph(Repeat("q", 60))>>]

DoclingInput(c, b) == [cfg |-> c, blocks |-> b, pages |-> <<>>]

\* a structured block of extract_page_elements: stripped, non-empty content; the
\* type is what _classify_block_type gives it (under 10 chars: "label"; 10 chars
\* or more in a bold font above 12pt: "heading")
Block(text, kind) == [type |-> kind, content |-> text]

BlockPool ==
    {Block(<<"a", "a", "a">>, "label"),
     Block(<<"a", ".", " ", "b">>, "label"),
     Block(<<"B", "o", "l", "d", " ", "t", "i", "t", "l", "e">>, "heading")}

\* what a page holds besides its blocks: images (likely_type, dimensions), tables
VisualPool ==
    {[images |-> <<>>, tables |-> 0],
     [images |-> <<[likely_type |-> "photo", dimensions |-> <<"9", "x", "9">>]>>,
      tables |-> 0],
     [images |-> <<[likely_type |-> "chart", dimensions |-> <<"2", "x", "2">>]>>,
      tables |-> 1]}

\* page page_num of the document: its blocks get the ids page_{n}_block_{i}
Page(page_num, visual, blocks) ==
    [page_number |-> page_num,
     images |-> visual.images,
     tables |-> visual.tables,
     structured_blocks |->
         [i \in 1..Len(blocks) |->
             [id |-> block_label(page_num, i), type |-> blocks[i].type,
              content |-> blocks[i].content, page |-> page_num]]]

\* documents of two pages: the blocks b split after the k-th, visuals on page 1
TwoPages(b, k, visual) ==
    <<Page(1, visual, SubSeq(b, 1, k)),
      Page(2, [images |-> <<>>, tables |-> 0], SubSeq(b, k + 1, Len(b)))>>

ContentInput(c, pages) == [cfg |-> c, blocks |-> <<>>, pages |-> pages]

\* a keyword argument with its default
Field(input, name, default) == IF name \in DOMAIN input THEN input[name] ELSE default

Start(kind, at, input) ==
    /\ impl = kind
    /\ chunk_size = input.cfg.chunk_size
    /\ overlap = input.cfg.overlap
    /\ min_chunk_size = input.cfg.min_chunk_size
    /\ text_blocks = input.blocks
    /\ pc = at
    /\ idx = 1
    /\ current_chunk_content = <<>>
    /\ current_section = None
    /\ current_elements = <<>>
    /\ current_seed = <<>>
    /\ current_appended = <<>>
    /\ chunks = <<>>
    /\ hist = <<>>
    /\ document_structures = <<>>
    /\ current_hierarchy = <<>>
    /\ all_elements = input.pages
    /\ page_idx = 1
    /\ visual_context = <<>>
    /\ current_chunk = empty_chunk
    /\ chunk_counter = 1
    /\ classifier_text = Field(input, "content", <<>>)
    /\ classified = <<>>
    /\ argv = Field(input, "argv", <<>>)
    /\ arg_i = 2
    /\ fund_identifier = Field(input, "fund_identifier", <<>>)
    /\ map_id = Field(input, "map_id", <<>>)
    /\ sql_query = <<>>
    /\ fund_info = <<>>
    /\ extracted_data = <<>>

InitDocling ==
    \/ \E c \in ConfigPool, b \in SeqsUpTo(ElementPool, MaxElems) :
           Start("docling", "hierarchy", DoclingInput(c, b))
    \/ \E input \in {ScenarioA, ScenarioC, ScenarioE} :
           Start("docling", "hierarchy", input)

\* a document without pages, or two pages sharing up to MaxElems blocks
InitContent ==
    \/ \E c \in ConfigPool : Start("content", "page", ContentInput(c, <<>>))
    \/ \E c \in ConfigPool, b \in SeqsUpTo(BlockPool, MaxElems), v \in VisualPool :
           \E k \in 0..Len(b) :
               Start("content", "page", ContentInput(c, TwoPages(b, k, v)))

\* titles for the title-only classifier: the two of Scenario D, titles matching
\* patterns of two categories, a two-blank separator, no match, the empty title
TitlePool ==
    {<<"E", "X", "E", "C", "U", "T", "I", "V", "E", " ", "S", "U", "M", "M", "A", "R", "Y">>,
     <<"F", "e", "e", "s", " ", "a", "n", "d", " ", "E", "x", "p", "e", "n", "s", "e", "s", " ", "b", "r", "e", "a", "k", "d", "o", "w", "n">>,
     <<"R", "i", "s", "k", " ", "W", "a", "r", "n", "i", "n", "g", " ", "a", "n", "d", " ", "F", "e", "e", "s">>,
     <<"P", "e", "r", "f", "o", "r", "m", "a", "n", "c", "e", " ", "f", "e", "e", "s">>,
     <<"F", "u", "n", "d", " ", "O", "v", "e", "r", "v", "i", "e", "w">>,
     <<"S", "t", "r", "a", "t", "e", "g", "y", " ", "r", "e", "t", "u", "r", "n", "s">>,
     <<"L", "e", "g", "a", "l", " ", "c", "o", "s", "t", "s">>,
     <<"T", "r", "a", "c", "k", " ", " ", "r", "e", "c", "o", "r", "d">>,
     <<"C", "o", "n", "t", "a", "c", "t">>,
     <<"H", "e", "a", "d", "i", "n", "g", " ", "O", "n", "e">>,
     <<>>}

\* the constructor defaults: chunk_size 1000, overlap 200, min_chunk_size 100
DefaultConfig == Config(1000, 200, 100)

TitleInput(title) ==
    [cfg |-> DefaultConfig, blocks |-> <<>>, pages |-> <<>>, content |-> title]

InitTitleClassifier ==
    \E title \in TitlePool : Start("title_classifier", "classify", TitleInput(title))

RECURSIVE Repeated(_, _)
Repeated(s, n) == IF n = 0 THEN <<>> ELSE s \o Repeated(s, n - 1)

\* texts handed to _get_section_context: short ones, ones of 100 characters and
\* more without and with amounts, numbers and contact data, and ones of more
\* than 1000 characters
ContentPool ==
    LET filler == <<"t", "h", "e", " ", "q", "u", "i", "c", "k", " ", "f", "o", "x", " ", "j", "u", "m", "p", "s", " ">>
        compact == <<"t", "h", "e", "q", "u", "i", "c", "k", "f", "o", "x", "j", "u", "m", "p", "s", "o", "v", "e", "r", " ">>
    IN {<<>>,
        <<"Q", "u", "a", "r", "t", "e", "r", "l", "y", " ", "r", "e", "p", "o", "r", "t">>,
        <<"r", "i", "s", "k", " ", "w", "a", "r", "n", "i", "n", "g">>,
        <<"U", "S", "D", " ", "o", "r", " ", "E", "U", "R">>,
        <<"i", "n", "v", "e", "s", "t", "m", "e", "n", "t", " ", "t", "h", "e", "s", "i", "s">>,
        Repeated(filler, 6),
        Repeated(filler, 5) \o <<"i", "n", "v", "e", "s", "t", "m", "e", "n", "t", " ", "s", "t", "r", "a", "t", "e", "g", "y">>,
        Repeated(filler, 11),
        Repeated(filler, 11) \o <<"U", "S", "D">>,
        Repeated(filler, 11) \o <<"U", "S", "D", " ", "o", "r", " ", "E", "U", "R">>,
        Repeated(filler, 10) \o <<"1", " ", "2", " ", "3", ".", "5", " ", "4", " ", "1", "2", " ", "7", " ", "9", " ", "1", "0", " ", "1", "1", " ", "8", " ", "6">>,
        Repeated(filler, 11) \o <<"e", "m", "a", "i", "l", " ", "a", "@", "b", ".", "c", "o">>,
        Repeated(filler, 11) \o <<"$", "1", ",", "0", "0", "0", ".", "5", "0", " ", "e", "m", "a", "i", "l", " ", "a", "@", "b", ".", "c", "o">>,
        Repeated(filler, 11) \o <<"f", "a", "x", " ", "+", "1", " ", "5", "5", "5", " ", "1", "2", "3", "4", "5", "6", "7">>,
        Repeated(filler, 11) \o <<"N", "A", "V", " ", "1", "2", ".", "5", "%", " ", "b", "p", "s", " ", "1", ",", "0", "0", "0", ",", "0", "0", "0", " ", "R", "O", "E", " ", "P", "/", "E", " ", "$", "5", " ", "m", "i", "l", "l", "i", "o", "n">>,
        Repeated(compact, 49),
        Repeated(compact, 49) \o <<"U", "S", "D", " ", "E", "U", "R">>}

TextInput(text) ==
    [cfg |-> DefaultConfig, blocks |-> <<>>, pages |-> <<>>, content |-> text]

InitWeightedClassifier ==
    \E text \in ContentPool : Start("weighted_classifier", "classify", TextInput(text))

\* command lines: no file, a file alone, a missing file, an identifier, a key, a
\* key and a chunk size, a key and an identifier in both orders, the key 0, a
\* negative key, a key that is no integer, a chunk size before or after the
\* other arguments, "--map-id" as the last argument, two identifiers
ArgvPool ==
    {<<<<"c", "h", "u", "n", "k", "s", ".", "p", "y">>>>,
     <<<<"c", "h", "u", "n", "k", "s", ".", "p", "y">>, <<"d", "o", "c", ".", "p", "d", "f">>>>,
     <<<<"c", "h", "u", "n", "k", "s", ".", "p", "y">>, <<"g", "o", "n", "e", ".", "p", "d", "f">>, <<"a", "c", "m", "e">>>>,
     <<<<"c", "h", "u", "n", "k", "s", ".", "p", "y">>, <<"d", "o", "c", ".", "p", "d", "f">>, <<"a", "c", "m", "e">>>>,
     <<<<"c", "h", "u", "n", "k", "s", ".", "p", "y">>, <<"d", "o", "c", ".", "p", "d", "f">>, <<"-", "-", "m", "a", "p", "-", "i", "d">>, <<"1", "2", "3">>>>,
     <<<<"c", "h", "u", "n", "k", "s", ".", "p", "y">>, <<"d", "o", "c", ".", "p", "d", "f">>, <<"-", "-", "m", "a", "p", "-", "i", "d">>, <<"1", "2", "3">>, <<"1", "5", "0", "0">>>>,
     <<<<"c", "h", "u", "n", "k", "s", ".", "p", "y">>, <<"d", "o", "c", ".", "p", "d", "f">>, <<"-", "-", "m", "a", "p", "-", "i", "d">>, <<"5">>, <<"a", "c", "m", "e">>>>,
     <<<<"c", "h", "u", "n", "k", "s", ".", "p", "y">>, <<"d", "o", "c", ".", "p", "d", "f">>, <<"a", "c", "m", "e">>, <<"-", "-", "m", "a", "p", "-", "i", "d">>, <<"5">>>>,
     <<<<"c", "h", "u", "n", "k", "s", ".", "p", "y">>, <<"d", "o", "c", ".", "p", "d", "f">>, <<"-", "-", "m", "a", "p", "-", "i", "d">>, <<"0">>, <<"a", "c", "m", "e">>>>,
     <<<<"c", "h", "u", "n", "k", "s", ".", "p", "y">>, <<"d", "o", "c", ".", "p", "d", "f">>, <<"a", "c", "m", "e">>, <<"-", "-", "m", "a", "p", "-", "i", "d">>, <<"0">>>>,
     <<<<"c", "h", "u", "n", "k", "s", ".", "p", "y">>, <<"d", "o", "c", ".", "p", "d", "f">>, <<"-", "-", "m", "a", "p", "-", "i", "d">>, <<"-", "3">>, <<"a", "c", "m", "e">>>>,
     <<<<"c", "h", "u", "n", "k", "s", ".", "p", "y">>, <<"d", "o", "c", ".", "p", "d", "f">>, <<"-", "-", "m", "a", "p", "-", "i", "d">>, <<"x", "1">>, <<"a", "c", "m", "e">>>>,
     <<<<"c", "h", "u", "n", "k", "s", ".", "p", "y">>, <<"d", "o", "c", ".", "p", "d", "f">>, <<"1", "5", "0">>>>,
     <<<<"c", "h", "u", "n", "k", "s", ".", "p", "y">>, <<"d", "o", "c", ".", "p", "d", "f">>, <<"a", "c", "m", "e">>, <<"1", "5", "0">>>>,
     <<<<"c", "h", "u", "n", "k", "s", ".", "p", "y">>, <<"d", "o", "c", ".", "p", "d", "f">>, <<"-", "-", "m", "a", "p", "-", "i", "d">>>>,
     <<<<"c", "h", "u", "n", "k", "s", ".", "p", "y">>, <<"d", "o", "c", ".", "p", "d", "f">>, <<"1", "5", "0">>, <<"-", "-", "m", "a", "p", "-", "i", "d">>, <<"7">>>>,
     <<<<"c", "h", "u", "n", "k", "s", ".", "p", "y">>, <<"d", "o", "c", ".", "p", "d", "f">>, <<"-", "-", "m", "a", "p", "-", "i", "d">>, <<"0">>, <<"1", "5", "0">>>>,
     <<<<"c", "h", "u", "n", "k", "s", ".", "p", "y">>, <<"d", "o", "c", ".", "p", "d", "f">>, <<"a", "c", "m", "e">>, <<"o", "t", "h", "e", "r">>>>,
     <<<<"c", "h", "u", "n", "k", "s", ".", "p", "y">>, <<"d", "o", "c", ".", "p", "d", "f">>, <<"-", "-", "m", "a", "p", "-", "i", "d">>, <<"7">>, <<"1", "5", "0">>>>}

\* Path(pdf_file).exists(): the files present
PathExists(pdf_file) == pdf_file = <<"d", "o", "c", ".", "p", "d", "f">>

\* what the page scan finds in the file: no page, a page without text, one short
\* block, and blocks long enough for a size boundary
ScanPool ==
    LET filler == <<"a", "b", "c", "d", "e", "f", "g", "h", "i", " ">>
        text(b) == [type |-> "text_block", content |-> b]
        plain == [images |-> <<>>, tables |-> 0]
    IN {<<>>,
        <<Page(1, plain, <<>>)>>,
        <<Page(1, plain, <<text(<<"a", "a", "a">>)>>)>>,
        <<Page(1, plain, <<text(Repeated(filler, 12))>>),
          Page(2, plain, <<text(Repeated(filler, 12)), text(<<"a", " ", "b">>)>>)>>}

MainInput(args, pages) ==
    [cfg |-> DefaultConfig, blocks |-> <<>>, pages |-> pages, argv |-> args]

InitMain ==
    \E program \in {"chunks2", "chunkscompleto"}, args \in ArgvPool, pages \in ScanPool :
        Start(program, "main", MainInput(args, pages))

\* heading texts for each rule of the heuristic, and elements that carry a
\* level of their own, inside and outside 1..6
InitHeadingLevel ==
    LET HeadingTextPool ==
            {<<"E", "X", "E", "C", "U", "T", "I", "V", "E", " ", "S", "U", "M", "M", "A", "R", "Y">>,
             <<"C", "o", "n", "t", "e", "n", "t", "s">>,
             <<"I", "V", ".", " ", "T", "e", "r", "m", "s">>,
             <<"F", "u", "n", "d", " ", "O", "v", "e", "r", "v", "i", "e", "w">>,
             <<"I", "n", "v", "e", "s", "t", "m", "e", "n", "t", " ", "S", "t", "r", "a", "t", "e", "g", "y">>,
             <<"1", ".", " ", "I", "n", "v", "e", "s", "t", "m", "e", "n", "t">>,
             <<"D", "i", "v", "e", "r", "s", "i", "f", "i", "e", "d", " ", "I", "n", "v", "e", "s", "t", "m", "e", "n", "t", "s">>,
             <<"R", "i", "s", "k", " ", "M", "a", "n", "a", "g", "e", "m", "e", "n", "t", " ", "P", "o", "l", "i", "c", "y">>,
             <<"1", ".", "1", " ", "S", "c", "o", "p", "e">>,
             <<"a", ")", " ", "p", "o", "i", "n", "t">>,
             <<"R", "I", "S", "K", "-", "F", "A", "C", "T", "O", "R", "S", " ", "2", "0", "2", "4">>,
             <<"o", "n", "e", " ", "t", "w", "o", " ", "t", "h", "r", "e", "e", " ", "f", "o", "u", "r", " ", "f", "i", "v", "e", " ", "s", "i", "x", " ", "s", "e", "v", "e", "n", " ", "e", "i", "g", "h", "t", " ", "n", "i", "n", "e">>,
             <<" ", " ", "T", "a", "b", "l", "e", " ", "o", "f", " ", " ", "c", "o", "n", "t", "e", "n", "t", "s", " ">>}
        input(text, element) ==
            [cfg |-> DefaultConfig, blocks |-> <<element>>, pages |-> <<>>, content |-> text]
        terms == <<"T", "e", "r", "m", "s">>
    IN \/ \E text \in HeadingTextPool :
              Start("heading_level", "level", input(text, [text |-> text]))
       \/ \E lvl \in {-1, 0, 1, 6, 7} :
              Start("heading_level", "level", input(terms, [text |-> terms, level |-> lvl]))

\* block texts as extract_page_elements joins them from the spans, one or more
\* for each rule of the two classifiers
BlockTextPool ==
    LET word == <<"t", "h", "e", "q", "u", "i", "c", "k", "f", "o", "x", "j", "u", "m", "p", "s", "o", "v", "e", "r", " ">>
    IN {<<" ">>,
        <<"T", "o", "t", "a", "l">>,
        <<"1", "2", "3", "4", "5", "6", "7", "8", "9", "0">>,
        <<"P", "l", "a", "i", "n", " ", "t", "e", "x", "t", " ", "4", " ", "y", "o", "u", ".", " ">>,
        <<"A", "N", "N", "U", "A", "L", " ", "T", "O", "T", "A", "L", "S", " ", "2", "0", "2", "4">>,
        <<"C", "h", "a", "p", "t", "e", "r", " ", "1", "2", " ", "b", "e", "g", "i", "n", "s", ".">>,
        <<"2", ".", " ", "T", "e", "r", "m", "s", " ", "o", "f", " ", "t", "h", "e", " ", "d", "e", "a", "l">>,
        <<"s", "e", "c", "t", "i", "o", "n", " ", "B", "9", " ", "n", "o", "t", "e", "s", ".">>,
        <<"A", "n", "n", "u", "a", "l", " ", "R", "e", "p", "o", "r", "t", " ", "2", "0", "2", "4", ".">>,
        <<"K", "e", "y", " ", "t", "e", "r", "m", "s", " ", "a", "n", "d", " ", "d", "e", "f", "i", "n", "i", "t", "i", "o", "n", "s">>,
        <<"O", "u", "r", " ", "f", "u", "n", "d", " ", "g", "r", "e", "w", " ", "4", " ", "t", "i", "m", "e", "s", ".">>,
        <<"-", " ", "f", "i", "r", "s", "t", " ", "p", "o", "i", "n", "t", ",", " ", "i", "t", "e", "m", " ", "1">>,
        <<"(", "a", ")", " ", "f", "i", "r", "s", "t", " ", "p", "o", "i", "n", "t", ",", " ", "i", "t", "e", "m", " ", "1">>,
        <<"a", ".", " ", "f", "i", "r", "s", "t", " ", "p", "o", "i", "n", "t", ",", " ", "i", "t", "e", "m", " ", "1">>,
        <<"i", "i", ".", " ", "s", "e", "c", "o", "n", "d", " ", "p", "o", "i", "n", "t", " ", "2">>,
        <<"1", ".", " ", "2", "n", "d", " ", "p", "o", "i", "n", "t", " ", "h", "e", "r", "e">>,
        <<"2", "0", "2", "1", " ", " ", "1", "0", " ", " ", "2", "0", " ", " ", "3", "0", " ", "x", ".">>,
        <<"7", "\t", "8", "\t", "9", "\t", "a", "n", "d", " ", "m", "o", "r", "e">>,
        <<"P", "a", "i", "d", " ", "$", "1", ",", "0", "0", "0", ".", "0", "0", " ", "(", "1", "0", "0", "0", ")", " ", "n", "e", "t", ".">>,
        <<"2", "0", "2", "4", " ", "1", "5", ".", "2", " ", "%", " ", "u", "p", "!">>,
        <<"*", " ", "s", "e", "e", " ", "p", "a", "g", "e", " ", "4", " ", "o", "f", " ", "t", "h", "i", "s", ".">>,
        <<"N", "o", "t", "e", ":", " ", "a", "s", " ", "o", "f", " ", "2", "0", "2", "4", ".">>,
        <<"S", "o", "u", "r", "c", "e", ":", " ", "t", "h", "e", " ", "2", "0", "2", "4", " ", "d", "a", "t", "a", ".">>,
        <<"f", "o", "r", " ", "m", "o", "r", "e", " ", "i", "n", "f", "o", "r", "m", "a", "t", "i", "o", "n", " ", "c", "a", "l", "l", " ", "5", "5", "5", ".">>,
        <<"T", "h", "e", " ", "2", " ">> \o Repeated(word, 7) \o <<"p", "a", "s", "t", " ", "p", "e", "r", "f", "o", "r", "m", "a", "n", "c", "e", ".">>,
        <<"T", "h", "e", " ", "2", " ">> \o Repeated(word, 10),
        <<"T", "h", "e", " ", "2", " ">> \o Repeated(word, 3),
        <<"T", "h", "e", " ", "2", " ">> \o Repeated(word, 5),
        <<" ", " ", "M", "a", "r", "c", "h", " ", "1", "4", ",", " ", "2", "0", "2", "5", " ">>,
        <<"w", "w", "w", ".", "e", "x", "a", "m", "p", "l", "e", ".", "o", "r", "g">>,
        <<"h", "t", "t", "p", "s", ":", "/", "/", "e", "x", "a", "m", "p", "l", "e", ".", "o", "r", "g", "/", "x">>,
        <<"@", "u", "s", "e", "r", " ", "a", "t", " ", "s", "i", "t", "e", ".", "c", "o", "m">>,
        <<"N", "O", "T", "I", "C", "E", " ", "t", "o", " ", "a", "l", "l", " ", "9", ".">>,
        <<"1", " ", "2", " ", "3", " ", "4", " ", " ", "c", "o", "l", "u", "m", "n", "s">>,
        <<"*">> \o Repeated(word, 10)}

\* a block with the fonts of its spans: size in tenths of a point, flags with
\* bit 4 (16) bold
InitBlockType ==
    LET FontPool ==
            {<<>>,
             <<[size |-> 140, flags |-> 16]>>,
             <<[size |-> 120, flags |-> 20]>>,
             <<[size |-> 125, flags |-> 4]>>,
             <<[size |-> 125, flags |-> 20], [size |-> 100, flags |-> 0]>>}
    IN \E text \in BlockTextPool, font_info \in FontPool,
          kind \in {"block_type", "block_type_completo"} :
           Start(kind, "block",
                 [cfg |-> DefaultConfig, blocks |-> <<[font_info |-> font_info]>>,
                  pages |-> <<>>, content |-> text])

---------------------------------------------------------------------------
(* Actions *)

config_vars == <<impl, chunk_size, overlap, min_chunk_size, text_blocks>>
content_vars == <<all_elements, page_idx, visual_context, current_chunk, chunk_counter>>
program_vars == <<classifier_text, classified, argv, arg_i, fund_identifier, map_id,
                  sql_query, fund_info, extracted_data>>
builder_vars == <<current_chunk_content, current_section, current_elements,
                  current_seed, current_appended, chunks, hist>>
hierarchy_vars == <<document_structures, current_hierarchy>>

\* one iteration of the loop of _build_document_hierarchy
BuildHierarchyStep ==
    /\ pc = "hierarchy"
    /\ idx <= Len(text_blocks)
    /\ LET element == text_blocks[idx]
       IN IF element.type = "heading"
          THEN LET section == new_section(element,
                                  find_parent_id(current_hierarchy, element.level))
               IN /\ current_hierarchy' = adjust_hierarchy(current_hierarchy, section)
                  /\ document_structures' = Append(document_structures, section)
          ELSE UNCHANGED hierarchy_vars
    /\ idx' = idx + 1
    /\ UNCHANGED <<pc, config_vars, program_vars, builder_vars, content_vars>>

\* _build_document_hierarchy returns; create_structured_chunks picks the builder
CreateStructuredChunks ==
    /\ pc = "hierarchy"
    /\ idx > Len(text_blocks)
    /\ impl = "docling"
    /\ pc' = IF text_blocks # <<>> THEN "loop" ELSE "enrich"
    /\ idx' = 1
    /\ UNCHANGED <<config_vars, program_vars, builder_vars, hierarchy_vars, content_vars>>

\* one iteration of the loop of _create_chunks_from_docling
DoclingStep ==
    /\ impl = "docling"
    /\ pc = "loop"
    /\ idx <= Len(text_blocks)
    /\ LET element == text_blocks[idx]
           element_content == element.content
           is_heading == element.type = "heading"
           \* heading: finalize the previous chunk if there is one
           flush == is_heading /\ heading_closes_chunk(current_chunk_content)
           chunks1 == IF flush
                      THEN Append(chunks, create_chunk_from_content(
                               current_chunk_content, current_section,
                               current_elements, next_chunk_id(chunks)))
                      ELSE chunks
           hist1 == IF flush
                    THEN Append(hist, HistEntry("heading", current_seed,
                                                current_chunk_content, current_appended))
                    ELSE hist
           content1 == IF flush THEN <<>> ELSE current_chunk_content
           elements1 == IF flush THEN <<>> ELSE current_elements
           seed1 == IF flush THEN <<>> ELSE current_seed
           appended1 == IF flush THEN <<>> ELSE current_appended
           section1 == IF is_heading THEN element ELSE current_section
           \* size boundary
           boundary == boundary_reached(content1, element_content)
           chunks2 == IF boundary
                      THEN Append(chunks1, create_chunk_from_content(
                               content1, section1, elements1, next_chunk_id(chunks1)))
                      ELSE chunks1
           hist2 == IF boundary
                    THEN Append(hist1, HistEntry("boundary", seed1, content1, appended1))
                    ELSE hist1
           content2 == IF boundary THEN get_overlap_content(content1) ELSE content1
           elements2 == IF boundary THEN <<>> ELSE elements1
           seed2 == IF boundary THEN content2 ELSE seed1
           appended2 == IF boundary THEN <<>> ELSE appended1
       IN /\ chunks' = chunks2
          /\ hist' = hist2
          /\ current_section' = section1
          /\ current_seed' = seed2
          /\ current_chunk_content' = append_content(content2, element_content)
          /\ current_elements' = Append(elements2, element)
          /\ current_appended' = Append(appended2, Part(element, element_content))
    /\ idx' = idx + 1
    /\ UNCHANGED <<pc, config_vars, program_vars, hierarchy_vars, content_vars>>

\* after the loop: finalize the last chunk, return to create_structured_chunks
DoclingFinish ==
    /\ impl = "docling"
    /\ pc = "loop"
    /\ idx > Len(text_blocks)
    /\ IF last_chunk_pending(current_chunk_content)
       THEN /\ chunks' = Append(chunks, create_chunk_from_content(
                             current_chunk_content, current_section,
                             current_elements, next_chunk_id(chunks)))
            /\ hist' = Append(hist, HistEntry("end", current_seed,
                                              current_chunk_content, current_appended))
       ELSE UNCHANGED <<chunks, hist>>
    /\ pc' = "enrich"
    /\ UNCHANGED <<idx, config_vars, program_vars, hierarchy_vars, content_vars,
                   current_chunk_content, current_section, current_elements,
                   current_seed, current_appended>>

\* _enrich_chunks_with_structure over the whole list; create_structured_chunks returns
EnrichChunks ==
    /\ impl = "docling"
    /\ pc = "enrich"
    /\ chunks' = [i \in 1..Len(chunks) |-> enrich_chunk(chunks, i)]
    /\ pc' = "done"
    /\ UNCHANGED <<idx, config_vars, program_vars, hierarchy_vars, content_vars, hist,
                   current_chunk_content, current_section, current_elements,
                   current_seed, current_appended>>

\* top of the page loop of create_content_chunks: visual_context of the page
ContentPageStart ==
    /\ impl = "content"
    /\ pc = "page"
    /\ page_idx <= Len(all_elements)
    /\ visual_context' = page_visual_context(all_elements[page_idx])
    /\ idx' = 1
    /\ pc' = "block"
    /\ UNCHANGED <<config_vars, program_vars, builder_vars, hierarchy_vars, all_elements, page_idx,
                   current_chunk, chunk_counter>>

\* one iteration of the block loop of create_content_chunks
ContentBlockStep ==
    /\ impl = "content"
    /\ pc = "block"
    /\ idx <= Len(all_elements[page_idx].structured_blocks)
    /\ LET page_num == all_elements[page_idx].page_number
           block == all_elements[page_idx].structured_blocks[idx]
           with_context == takes_visual_context(visual_context, block.type)
           content_with_context == IF with_context
                                   THEN block.content \o visual_context
                                   ELSE block.content
           boundary == boundary_reached(current_chunk.content, content_with_context)
           finalized == finalize_chunk(current_chunk, chunk_counter)
           overlap_content == get_overlap_content(finalized.content)
           counter1 == IF boundary THEN chunk_counter + 1 ELSE chunk_counter
           chunk1 == IF boundary
                     THEN fresh_chunk(counter1, overlap_content, page_num, block,
                                      create_chunk_summary(finalized.content))
                     ELSE current_chunk
       IN /\ chunks' = IF boundary THEN Append(chunks, finalized) ELSE chunks
          /\ hist' = IF boundary
                     THEN Append(hist, HistEntry("boundary", current_seed,
                                                 current_chunk.content, current_appended))
                     ELSE hist
          /\ chunk_counter' = counter1
          /\ current_seed' = IF boundary THEN overlap_content ELSE current_seed
          /\ current_appended' =
                 Append(IF boundary THEN <<>> ELSE current_appended,
                        Part(block, content_with_context))
          /\ current_chunk' =
                 [chunk1 EXCEPT
                     !.content = append_content(chunk1.content, content_with_context),
                     !.pages = AppendNew(chunk1.pages, page_num),
                     !.elements = Append(chunk1.elements, block.id),
                     !.content_types = AppendNew(chunk1.content_types, block.type)]
          /\ visual_context' = IF with_context THEN <<>> ELSE visual_context
    /\ idx' = idx + 1
    /\ UNCHANGED <<pc, config_vars, program_vars, hierarchy_vars, all_elements, page_idx,
                   current_chunk_content, current_section, current_elements>>

\* the block loop of a page is over: next page
ContentPageEnd ==
    /\ impl = "content"
    /\ pc = "block"
    /\ idx > Len(all_elements[page_idx].structured_blocks)
    /\ page_idx' = page_idx + 1
    /\ pc' = "page"
    /\ UNCHANGED <<idx, config_vars, program_vars, builder_vars, hierarchy_vars, all_elements,
                   visual_context, current_chunk, chunk_counter>>

\* after the page loop: finalize the last chunk, link the chunks, return
ContentFinish ==
    /\ impl = "content"
    /\ pc = "page"
    /\ page_idx > Len(all_elements)
    /\ LET pending == content_chunk_pending(current_chunk)
           list == IF pending
                   THEN Append(chunks, finalize_chunk(current_chunk, chunk_counter))
                   ELSE chunks
       IN /\ chunks' = [i \in 1..Len(list) |-> link_chunk(list, i)]
          /\ hist' = IF pending
                     THEN Append(hist, HistEntry("end", current_seed,
                                                 current_chunk.content, current_appended))
                     ELSE hist
    /\ pc' = "done"
    /\ UNCHANGED <<idx, config_vars, program_vars, hierarchy_vars, all_elements, page_idx,
                   visual_context, current_chunk, chunk_counter, current_chunk_content,
                   current_section, current_elements, current_seed, current_appended>>

\* how often a classifier is called on the same text
Calls == 2

\* a call of _classify_section_type(content)
ClassifySectionType ==
    /\ impl = "title_classifier"
    /\ pc = "classify"
    /\ classified' = Append(classified, [category |-> classify_section_type(classifier_text)])
    /\ pc' = IF Len(classified') < Calls THEN "classify" ELSE "returned"
    /\ UNCHANGED <<idx, config_vars, builder_vars, hierarchy_vars, content_vars,
                   classifier_text, argv, arg_i, fund_identifier, map_id, sql_query,
                   fund_info, extracted_data>>

\* a call of _get_section_context(content)
GetSectionContext ==
    /\ impl = "weighted_classifier"
    /\ pc = "classify"
    /\ classified' = Append(classified, get_section_context(classifier_text))
    /\ pc' = IF Len(classified') < Calls THEN "classify" ELSE "returned"
    /\ UNCHANGED <<idx, config_vars, builder_vars, hierarchy_vars, content_vars,
                   classifier_text, argv, arg_i, fund_identifier, map_id, sql_query,
                   fund_info, extracted_data>>

\* main up to the argument loop
MainStart ==
    /\ impl \in {"chunks2", "chunkscompleto"}
    /\ pc = "main"
    /\ IF Len(argv) < 2
       THEN /\ pc' = "returned"
            /\ UNCHANGED <<chunk_size, overlap, arg_i, fund_identifier, map_id>>
       ELSE /\ fund_identifier' = <<>>
            /\ map_id' = <<>>
            /\ chunk_size' = 1000
            /\ overlap' = 200
            /\ arg_i' = 2
            /\ pc' = "args"
    /\ UNCHANGED <<idx, impl, min_chunk_size, text_blocks, builder_vars, hierarchy_vars,
                   content_vars, classifier_text, classified, argv, sql_query, fund_info,
                   extracted_data>>

\* one iteration of the argument loop of main; the chunk-size branch of
\* extrair/chunkscompleto.py also asks for "not map_id"
MainArgStep ==
    /\ impl \in {"chunks2", "chunkscompleto"}
    /\ pc = "args"
    /\ arg_i < Len(argv)
    /\ IF Arg(arg_i) = <<"-", "-", "m", "a", "p", "-", "i", "d">> /\ arg_i + 1 < Len(argv)
       THEN IF ParseInt(Arg(arg_i + 1)) = <<>>
            THEN /\ pc' = "returned"
                 /\ UNCHANGED <<map_id, arg_i, chunk_size, fund_identifier>>
            ELSE /\ map_id' = ParseInt(Arg(arg_i + 1))
                 /\ arg_i' = arg_i + 2
                 /\ UNCHANGED <<pc, chunk_size, fund_identifier>>
       ELSE IF IsDigit(Arg(arg_i)) /\ (impl = "chunks2" \/ ~HasKey(map_id))
       THEN /\ chunk_size' = NatOf(Arg(arg_i))
            /\ arg_i' = arg_i + 1
            /\ UNCHANGED <<pc, map_id, fund_identifier>>
       ELSE IF ~HasText(fund_identifier) /\ ~HasKey(map_id)
       THEN /\ fund_identifier' = <<Arg(arg_i)>>
            /\ arg_i' = arg_i + 1
            /\ UNCHANGED <<pc, map_id, chunk_size>>
       ELSE /\ arg_i' = arg_i + 1
            /\ UNCHANGED <<pc, map_id, chunk_size, fund_identifier>>
    /\ UNCHANGED <<idx, impl, overlap, min_chunk_size, text_blocks, builder_vars,
                   hierarchy_vars, content_vars, classifier_text, classified, argv,
                   sql_query, fund_info, extracted_data>>

\* main after the loop: the file test and the construction of the extractor
MainArgsDone ==
    /\ impl \in {"chunks2", "chunkscompleto"}
    /\ pc = "args"
    /\ arg_i >= Len(argv)
    /\ IF PathExists(Arg(1))
       THEN /\ min_chunk_size' = 100
            /\ pc' = "extract"
       ELSE /\ pc' = "returned"
            /\ UNCHANGED min_chunk_size
    /\ UNCHANGED <<idx, impl, chunk_size, overlap, text_blocks, builder_vars,
                   hierarchy_vars, content_vars, program_vars>>

\* extract_to_enhanced_chunks of chunks2.py on the scanned pages: the metadata
\* with the fund lookup, whose outcome the database decides, the chunks, the
\* statistics
ExtractToEnhancedChunks ==
    /\ impl = "chunks2"
    /\ pc = "extract"
    /\ \E outcome \in LookupOutcomes :
           LET info == fund_info_from_sql("chunks2", fund_identifier, map_id, outcome)
               list == structured_chunks(all_elements)
               metadata == [fund_info |-> info, chunk_size |-> chunk_size,
                            overlap |-> overlap]
           IN /\ sql_query' = fund_query(fund_identifier, map_id)
              /\ fund_info' = <<info>>
              /\ chunks' = list
              /\ extracted_data' = extracted(metadata, list)
    /\ pc' = "returned"
    /\ UNCHANGED <<idx, config_vars, hierarchy_vars, content_vars, current_chunk_content,
                   current_section, current_elements, current_seed, current_appended,
                   hist, classifier_text, classified, argv, arg_i, fund_identifier,
                   map_id>>

\* get_fund_info_from_sql as extract_to_chunks of extrair/chunkscompleto.py calls
\* it for the metadata
GetFundInfoFromSql ==
    /\ impl = "chunkscompleto"
    /\ pc = "extract"
    /\ \E outcome \in LookupOutcomes :
           /\ sql_query' = fund_query(fund_identifier, map_id)
           /\ fund_info' = <<fund_info_from_sql("chunkscompleto", fund_identifier,
                                                map_id, outcome)>>
    /\ pc' = "returned"
    /\ UNCHANGED <<idx, config_vars, builder_vars, hierarchy_vars, content_vars,
                   classifier_text, classified, argv, arg_i, fund_identifier, map_id,
                   extracted_data>>

\* a call of _determine_heading_level(text_content, element)
DetermineHeadingLevel ==
    /\ impl = "heading_level"
    /\ pc = "level"
    /\ classified' = Append(classified,
                            [level |-> determine_heading_level(classifier_text, text_blocks[1])])
    /\ pc' = "returned"
    /\ UNCHANGED <<idx, config_vars, builder_vars, hierarchy_vars, content_vars,
                   classifier_text, argv, arg_i, fund_identifier, map_id, sql_query,
                   fund_info, extracted_data>>

\* extract_page_elements of extrair/chunks.py for one block: a block with text
\* is classified and stored as a structured block
ClassifyBlockType ==
    /\ impl = "block_type"
    /\ pc = "block"
    /\ classified' =
           IF Strip(classifier_text) # <<>>
           THEN Append(classified,
                       [type |-> classify_block_type(classifier_text, text_blocks[1].font_info),
                        content |-> Strip(classifier_text)])
           ELSE classified
    /\ pc' = "returned"
    /\ UNCHANGED <<idx, config_vars, builder_vars, hierarchy_vars, content_vars,
                   classifier_text, argv, arg_i, fund_identifier, map_id, sql_query,
                   fund_info, extracted_data>>

\* the same step of extrair/chunkscompleto.py
ClassifyBlockTypeCompleto ==
    /\ impl = "block_type_completo"
    /\ pc = "block"
    /\ classified' =
           IF Strip(classifier_text) # <<>>
           THEN Append(classified,
                       [type |-> classify_block_type_completo(classifier_text,
                                                              text_blocks[1].font_info),
                        content |-> Strip(classifier_text)])
           ELSE classified
    /\ pc' = "returned"
    /\ UNCHANGED <<idx, config_vars, builder_vars, hierarchy_vars, content_vars,
                   classifier_text, argv, arg_i, fund_identifier, map_id, sql_query,
                   fund_info, extracted_data>>

Init ==
    InitDocling \/ InitContent \/ InitTitleClassifier \/ InitWeightedClassifier \/ InitMain
    \/ InitHeadingLevel \/ InitBlockType

Next ==
    \/ BuildHierarchyStep
    \/ CreateStructuredChunks
    \/ DoclingStep
    \/ DoclingFinish
    \/ EnrichChunks
    \/ ContentPageStart
    \/ ContentBlockStep
    \/ ContentPageEnd
    \/ ContentFinish
    \/ ClassifySectionType
    \/ GetSectionContext
    \/ MainStart
    \/ MainArgStep
    \/ MainArgsDone
    \/ ExtractToEnhancedChunks
    \/ GetFundInfoFromSql
    \/ DetermineHeadingLevel
    \/ ClassifyBlockType
    \/ ClassifyBlockTypeCompleto

Spec == Init /\ [][Next]_vars

---------------------------------------------------------------------------
(* Properties *)

RECURSIVE Flatten(_)
Flatten(lists) == IF lists = <<>> THEN <<>> ELSE Head(lists) \o Flatten(Tail(lists))

\* the input element sequence of the running builder, in input order
InputElements ==
    IF impl = "docling" THEN text_blocks
    ELSE Flatten([p \in 1..Len(all_elements) |-> all_elements[p].structured_blocks])

Finished == pc = "done"

\* what chunk k received after its seed: the appended texts, blank-line separated
BodyOf(k) ==
    Join([i \in 1..Len(hist[k].appended) |-> hist[k].appended[i].text], Separator)

\* the elements chunk k received, in append order
ElementsOf(k) == [i \in 1..Len(hist[k].appended) |-> hist[k].appended[i].element]

\* chunks2.py stores content.strip(), extrair/chunks.py the accumulator itself
StoredForm(text) == IF impl = "docling" THEN Strip(text) ELSE text

\* chunk k was started from the overlap seed of chunk k - 1
SeededFrom(k) == k \in 2..Len(hist) /\ hist[k - 1].by = "boundary"

\* the contents of the elements chunk k received, blank-line separated
ElementContentsOf(k) ==
    Join([i \in 1..Len(hist[k].appended) |-> hist[k].appended[i].element.content],
         Separator)

\* C1 as claimed: every chunk's stored content is its overlap seed followed by
\* the contents of its elements and nothing else, and the elements of all chunks
\* in chunk order are exactly the input elements, each once and in input order.
ChunkCoverageContentsOnly ==
    Finished =>
        /\ Len(hist) = Len(chunks)
        /\ Flatten([k \in 1..Len(hist) |-> ElementsOf(k)]) = InputElements
        /\ \A k \in 1..Len(hist) :
              chunks[k].content =
                  StoredForm(IF hist[k].seed = <<>> THEN ElementContentsOf(k)
                             ELSE hist[k].seed \o Separator \o ElementContentsOf(k))

\* C1 amended: every chunk's stored content is its overlap seed followed by the
\* texts appended for its elements and nothing else; the text appended for an
\* element is its content, in extrair/chunks.py followed by the page's
\* visual-context note for the first heading or paragraph block of a page with
\* images or tables; and the elements of all chunks, taken in chunk order, are
\* exactly the input elements, each once and in input order.
ChunkCoverage ==
    Finished =>
        /\ Len(hist) = Len(chunks)
        /\ Flatten([k \in 1..Len(hist) |-> ElementsOf(k)]) = InputElements
        /\ \A k \in 1..Len(hist) :
              /\ chunks[k].content =
                     StoredForm(IF hist[k].seed = <<>> THEN BodyOf(k)
                                ELSE hist[k].seed \o Separator \o BodyOf(k))
              /\ \A i \in 1..Len(hist[k].appended) :
                     LET part == hist[k].appended[i]
                     IN /\ IsPrefix(part.element.content, part.text)
                        /\ part.text # part.element.content =>
                              /\ impl = "content"
                              /\ part.element.type \in {"heading", "paragraph"}
                              /\ \E p \in 1..Len(all_elements) :
                                    /\ page_visual_context(all_elements[p]) # <<>>
                                    /\ part.text = part.element.content
                                           \o page_visual_context(all_elements[p])
                                    /\ part.element
                                           \in {all_elements[p].structured_blocks[j] :
                                                j \in 1..Len(all_elements[p].structured_blocks)}

\* C1 witness: a finished run of three elements with a seeded chunk and an
\* element that took its page's visual-context note
ChunkCoverageWitness ==
    /\ Finished
    /\ Len(InputElements) >= 3
    /\ \E k \in 2..Len(hist) : SeededFrom(k) /\ hist[k].seed # <<>>
    /\ \E k \in 1..Len(hist) : BodyOf(k) # ElementContentsOf(k)

\* C2: monotonic chunk ids. In the finished list the k-th chunk has id k.
MonotonicChunkIds ==
    Finished => \A k \in 1..Len(chunks) : chunks[k].id = chunk_label(k)

\* C2 witness: a finished list with chunks finalized by a heading, by the size
\* boundary and at end of input
MonotonicChunkIdsWitness ==
    /\ Finished
    /\ {hist[k].by : k \in 1..Len(hist)} = {"heading", "boundary", "end"}

\* C3 as claimed: every chunk other than the first and the last is longer than
\* min_chunk_size.
SizeBoundAllInnerChunks ==
    Finished =>
        \A k \in 2..(Len(chunks) - 1) : Len(chunks[k].content) > min_chunk_size

\* C3 amended: every chunk finalized by the size boundary, at any position, has
\* an accumulated length (its char_count) above min_chunk_size.
SizeBoundAtBoundary ==
    \A k \in 1..Len(hist) :
        (k <= Len(chunks) /\ hist[k].by = "boundary") =>
            /\ Len(hist[k].raw) > min_chunk_size
            /\ chunks[k].char_count > min_chunk_size

\* C3 witness: a chunk between the first and the last finalized by the boundary
SizeBoundWitness ==
    /\ Finished
    /\ \E k \in 2..(Len(hist) - 1) : hist[k].by = "boundary"

\* C4 as claimed: the seed carried into the next chunk is a suffix of the
\* finalized content X whenever len(X) > overlap.
OverlapSeedIsSuffix ==
    \A k \in 1..Len(hist) :
        (SeededFrom(k) /\ Len(hist[k - 1].raw) > overlap) =>
            IsSuffix(hist[k].seed, hist[k - 1].raw)

\* C5 as claimed: the seed carried into the next chunk is at most overlap long
\* whenever len(X) > overlap, for every overlap >= 0.
OverlapSeedWithinOverlap ==
    \A k \in 1..Len(hist) :
        (SeededFrom(k) /\ Len(hist[k - 1].raw) > overlap) =>
            Len(hist[k].seed) <= overlap

\* C6 as claimed: an element longer than chunk_size (whose text no other input
\* element contains, so that an occurrence is an occurrence of this element) is
\* found in exactly one chunk; alone in the input it is the only chunk.
OversizedElementInOneChunk ==
    (Finished /\ impl = "docling") =>
        /\ \A i \in 1..Len(text_blocks) :
              (/\ Len(text_blocks[i].content) > chunk_size
               /\ \A j \in 1..Len(text_blocks) :
                     j # i => ~Occurs(text_blocks[i].content, text_blocks[j].content))
              => Cardinality({k \in 1..Len(chunks) :
                                 Occurs(text_blocks[i].content, chunks[k].content)}) = 1
        /\ (Len(text_blocks) = 1 /\ Len(text_blocks[1].content) > chunk_size) =>
              /\ Len(chunks) = 1
              /\ chunks[1].content = text_blocks[1].content

\* C7: empty input. With no input element the builder returns an empty list, and
\* the run goes on to its end.
EmptyInputNoChunks ==
    (impl \in {"docling", "content"} /\ InputElements = <<>>) => (chunks = <<>> /\ (Finished \/ ENABLED Next))

\* C7 witness: a finished run over no elements, in either builder
EmptyInputWitness ==
    /\ Finished
    /\ InputElements = <<>>
    /\ impl = "content"

\* C8 as claimed: Scenario A gives two chunks, the heading alone, then the
\* paragraph under section title "Heading One" with section type risk_section.
ScenarioAResult ==
    (/\ Finished
     /\ text_blocks = ScenarioA.blocks
     /\ Config(chunk_size, overlap, min_chunk_size) = ScenarioA.cfg)
    => /\ Len(chunks) = 2
       /\ chunks[1].content = ScenarioA.blocks[1].content
       /\ IsSuffix(ScenarioA.blocks[2].content, chunks[2].content)
       /\ chunks[2].section_title = ScenarioA.blocks[1].content
       /\ chunks[2].section_type = "risk_section"

\* the builder is about to process a non-heading element with content c while
\* the accumulator holds a
AtNonHeading(a, c) ==
    \/ /\ impl = "docling" /\ pc = "loop" /\ idx <= Len(text_blocks)
       /\ text_blocks[idx].type # "heading"
       /\ a = current_chunk_content
       /\ c = text_blocks[idx].content
    \/ /\ impl = "content" /\ pc = "block"
       /\ idx <= Len(all_elements[page_idx].structured_blocks)
       /\ a = current_chunk.content
       /\ c = IF takes_visual_context(visual_context,
                     all_elements[page_idx].structured_blocks[idx].type)
              THEN all_elements[page_idx].structured_blocks[idx].content
                       \o visual_context
              ELSE all_elements[page_idx].structured_blocks[idx].content

\* the texts the element at hand can be appended as
AppendableTexts ==
    IF impl = "docling"
    THEN {text_blocks[i].content : i \in 1..Len(text_blocks)}
    ELSE {b.content \o v : b \in {InputElements[i] : i \in 1..Len(InputElements)},
                           v \in {<<>>, visual_context}}

\* the step at a non-heading element finalizes a chunk exactly under the
\* boundary condition; stored(a) is what the finalized chunk must hold
BoundaryStep(a, c, stored) ==
    LET crossing == Len(a) + Len(c) > chunk_size /\ Len(a) > min_chunk_size
        accumulator == IF impl = "docling" THEN current_chunk_content'
                       ELSE current_chunk'.content
    IN /\ Len(chunks') = Len(chunks) + (IF crossing THEN 1 ELSE 0)
       /\ crossing =>
             /\ chunks'[Len(chunks')].content = stored
             /\ accumulator = get_overlap_content(a) \o Separator \o c

\* Scenario E: chunk 1 is element 1, chunk 2 the last 20 chars of chunk 1, the
\* blank line, element 2
ScenarioEResult ==
    (/\ Finished
     /\ text_blocks = ScenarioE.blocks
     /\ Config(chunk_size, overlap, min_chunk_size) = ScenarioE.cfg)
    => /\ Len(chunks) = 2
       /\ chunks[1].content = ScenarioE.blocks[1].content
       /\ chunks[2].content = SubSeq(ScenarioE.blocks[1].content, 41, 60)
                                  \o Separator \o ScenarioE.blocks[2].content

HierarchyParentValid ==
    (impl = "docling" /\ pc # "hierarchy") =>
        \A j \in 1..Len(document_structures) :
            LET parent == resolve_parent(document_structures,
                                         document_structures[j].parent_id)
            IN (document_structures[j].parent_id # NoParent /\ parent # 0) =>
                   /\ document_structures[parent].level < document_structures[j].level
                   /\ parent < j

\* C13 as claimed: every chunk's char_count is the length of its stored content.
CharCountIsContentLength ==
    impl \in {"docling", "content"} =>
        \A k \in 1..Len(chunks) : chunks[k].char_count = Len(chunks[k].content)

\* 1-based input position of the last element of chunk k
LastElementOf(k) ==
    Len(Flatten([j \in 1..k |-> ElementsOf(j)]))

\* the content of the last heading at or before input position n, "" when none
NearestHeadingTitle(n) ==
    LET headings == {i \in 1..n : text_blocks[i].type = "heading"}
    IN IF headings = {} THEN <<>> ELSE text_blocks[SetMax(headings)].content

\* C18 as claimed: after the enrichment pass every chunk's section_title is the
\* content of the last heading at or before the chunk's elements, and empty for
\* the chunks before the first heading.
SectionFollowsNearestHeading ==
    (Finished /\ impl = "docling") =>
        \A k \in 1..Len(chunks) :
            chunks[k].section_title = NearestHeadingTitle(LastElementOf(k))

\* C19: neighbour links. In a finished list of N chunks, chunk i has
\* chunk_position "i/N", has previous_chunk_id exactly when i > 1, naming chunk
\* i - 1, and has next_chunk_id exactly when i < N, naming chunk i + 1.
NeighbourLinks ==
    Finished =>
        \A i \in 1..Len(chunks) :
            /\ chunks[i].chunk_position = Str(i) \o <<"/">> \o Str(Len(chunks))
            /\ ("previous_chunk_id" \in DOMAIN chunks[i]) <=> (i > 1)
            /\ i > 1 => chunks[i].previous_chunk_id = chunks[i - 1].id
            /\ ("next_chunk_id" \in DOMAIN chunks[i]) <=> (i < Len(chunks))
            /\ i < Len(chunks) => chunks[i].next_chunk_id = chunks[i + 1].id

\* C19 witness: a finished list of three chunks, so that the middle one has both
NeighbourLinksWitness ==
    /\ Finished
    /\ Len(chunks) >= 3
    /\ chunks[2].previous_chunk_id = chunks[1].id
    /\ chunks[2].next_chunk_id = chunks[3].id

\* the categories of the title-only classifier that have a pattern matching the
\* upper-cased text, as positions in the declared order
MatchingCategories(text) ==
    {n \in 1..Len(section_patterns) :
        \E m \in 1..Len(section_patterns[n].patterns) :
            ReSearch(section_patterns[n].patterns[m], Upper(text))}

\* C11: title-only classification is first-match in declaration order. Every
\* result of _classify_section_type is "general" when no category has a pattern
\* matching the upper-cased title, and otherwise a category with a matching
\* pattern before which, in the declared order executive_summary,
\* investment_strategy, fund_information, performance, risk_factors, legal, fees,
\* contact, no category has one; "EXECUTIVE SUMMARY" gives executive_summary and
\* "Fees and Expenses breakdown" gives fees.
TitleFirstMatch ==
    /\ [n \in 1..Len(section_patterns) |-> section_patterns[n].section_type]
           = <<"executive_summary", "investment_strategy", "fund_information",
               "performance", "risk_factors", "legal", "fees", "contact">>
    /\ impl = "title_classifier" =>
          \A i \in 1..Len(classified) :
              /\ classified[i].category = "general" <=> MatchingCategories(classifier_text) = {}
              /\ classified[i].category # "general" =>
                    \E n \in MatchingCategories(classifier_text) :
                        /\ section_patterns[n].section_type = classified[i].category
                        /\ \A m \in MatchingCategories(classifier_text) : n <= m
              /\ classifier_text = <<"E", "X", "E", "C", "U", "T", "I", "V", "E", " ",
                             "S", "U", "M", "M", "A", "R", "Y">>
                    => classified[i].category = "executive_summary"
              /\ classifier_text = <<"F", "e", "e", "s", " ", "a", "n", "d", " ", "E", "x",
                             "p", "e", "n", "s", "e", "s", " ", "b", "r", "e", "a",
                             "k", "d", "o", "w", "n">>
                    => classified[i].category = "fees"

\* C11 witness: a classified title that has matching patterns in two categories
TitleFirstMatchWitness ==
    /\ impl = "title_classifier"
    /\ classified # <<>>
    /\ Cardinality(MatchingCategories(classifier_text)) >= 2

\* the score of category c in a list of scores
ScoreOf(scores, c) ==
    LET n == CHOOSE n \in 1..Len(scores) : scores[n].context = c IN scores[n].score

MaxScore(scores) == SetMax({scores[n].score : n \in 1..Len(scores)})

\* C20: the weighted classifier scores the categories document_header,
\* executive_summary, financial_data, investment_content, risk_section,
\* legal_regulatory, governance, contact_info, performance_data, general_content
\* in this order; its result is general_content when the highest score is below
\* 1 (10 tenths), and otherwise a category holding the highest score before
\* which, in this order, no category holds it.
WeightedDecision ==
    impl = "weighted_classifier" =>
        \A i \in 1..Len(classified) :
            LET scores == classified[i].scores
                result == classified[i].category
            IN /\ [n \in 1..Len(scores) |-> scores[n].context]
                      = <<"document_header", "executive_summary", "financial_data",
                          "investment_content", "risk_section", "legal_regulatory",
                          "governance", "contact_info", "performance_data",
                          "general_content">>
               /\ MaxScore(scores) < 10 => result = "general_content"
               /\ MaxScore(scores) >= 10 =>
                      \E n \in 1..Len(scores) :
                          /\ scores[n].context = result
                          /\ scores[n].score = MaxScore(scores)
                          /\ \A m \in 1..(n - 1) : scores[m].score < MaxScore(scores)

\* C20 witness: a classified text on which two categories tie at the highest
\* score, which reaches the threshold
WeightedDecisionWitness ==
    /\ impl = "weighted_classifier"
    /\ classified # <<>>
    /\ MaxScore(classified[1].scores) >= 10
    /\ Cardinality({n \in 1..Len(classified[1].scores) :
                        classified[1].scores[n].score = MaxScore(classified[1].scores)}) >= 2

\* the category names of the specification
SectionCategories ==
    {"document_header", "executive_summary", "investment_content",
     "investment_strategy", "fund_information", "performance_data", "risk_section",
     "legal_regulatory", "fees", "governance", "contact_info", "financial_data",
     "general_content"}

\* C12 (as stated): every category a classifier returns, and every section type
\* stored in a chunk, is one of the thirteen category names, or "general" for a
\* title no pattern matches.
ClosedCategorySet ==
    /\ \A i \in 1..Len(classified) :
           classified[i].category \in SectionCategories \cup {"general"}
    /\ (impl = "docling" /\ Finished) =>
           \A k \in 1..Len(chunks) :
               chunks[k].section_type \in SectionCategories \cup {"general"}

KeyPositions(args) ==
    {i \in 3..(Len(args) - 1) :
        args[i] = <<"-", "-", "m", "a", "p", "-", "i", "d">> /\ ParseInt(args[i + 1]) # <<>>}

\* the free-text arguments of a command line: after the file, neither "--map-id"
\* nor its value nor a string of digits
FreeTextPositions(args) ==
    {i \in 3..Len(args) :
        /\ args[i] # <<"-", "-", "m", "a", "p", "-", "i", "d">>
        /\ ~IsDigit(args[i])
        /\ (i - 1) \notin KeyPositions(args)}

\* C16 (as stated): when the command line holds both "--map-id N", N an integer,
\* and a free-text identifier, in either order, the query sent is the one by
\* key N, in which the identifier has no part.
KeyTakesPriority ==
    (/\ impl \in {"chunks2", "chunkscompleto"}
     /\ sql_query # <<>>
     /\ KeyPositions(argv) # {}
     /\ FreeTextPositions(argv) # {})
        => \E i \in KeyPositions(argv) :
               sql_query = base_query \o key_clause(ParseInt(argv[i + 1])[1])

\* C17 (as stated): after "<file> --map-id <key> <digits>" the extractor is built
\* with map_id the key and chunk_size the number the digits write.
KeyThenChunkSize ==
    (/\ impl \in {"chunks2", "chunkscompleto"}
     /\ pc = "extract"
     /\ Len(argv) = 5
     /\ KeyPositions(argv) = {3}
     /\ IsDigit(argv[5]))
        => /\ map_id = ParseInt(argv[4])
           /\ chunk_size = NatOf(argv[5])

\* C15 (as stated, for one run): whatever the fund lookup answered, the run
\* returns a result that holds the chunks of the document and the lookup's
\* answer in its metadata, and an answer without a record carries the
\* unavailable marker with its reason.
LookupLeavesChunking ==
    (impl = "chunks2" /\ pc = "returned" /\ fund_info # <<>>)
        => /\ ~fund_info[1].sql_data_available => "error" \in DOMAIN fund_info[1]
           /\ extracted_data # <<>>
           /\ extracted_data[1].content_chunks = chunks
           /\ extracted_data[1].metadata.fund_info = fund_info[1]

\* str.lower() on the letters a-z
Lower(s) ==
    [i \in 1..Len(s) |->
        IF \E n \in 1..26 : UpperCase[n] = s[i]
        THEN LowerCase[CHOOSE n \in 1..26 : UpperCase[n] = s[i]]
        ELSE s[i]]

\* C21 (as stated): in the scores of the weighted classifier, a text holding k
\* keywords of the investment list, in any letter case, has the
\* investment_content score min(0.3 * k, 3) (in tenths: min(3 * k, 30)), and a
\* text holding a keyword of the risk list has a risk_section score above 0.
KeywordScoring ==
    impl = "weighted_classifier" =>
        \A i \in 1..Len(classified) :
            /\ ScoreOf(classified[i].scores, "investment_content")
                   = Capped(CountIn(investment_indicators, Lower(classifier_text)), 3, 30)
            /\ CountIn(risk_indicators, Lower(classifier_text)) > 0
                   => ScoreOf(classified[i].scores, "risk_section") > 0

\* C22 (as stated): the level _determine_heading_level gives a heading lies in
\* 1..6, also when the element carries a level of its own outside that range.
HeadingLevelInRange ==
    impl = "heading_level" =>
        \A i \in 1..Len(classified) : classified[i].level \in 1..6

\* C23 (as stated): resolving a Section's parent_id against the section list
\* gives the nearest Section before it with a strictly smaller level, and a
\* Section has no parent exactly when no earlier Section has a smaller level.
ParentIsNearestSmallerLevel ==
    (impl = "docling" /\ pc # "hierarchy") =>
        \A j \in 1..Len(document_structures) :
            LET smaller == {i \in 1..(j - 1) : document_structures[i].level
                                                   < document_structures[j].level}
            IN /\ (document_structures[j].parent_id = NoParent) <=> (smaller = {})
               /\ smaller # {} =>
                      resolve_parent(document_structures, document_structures[j].parent_id)
                          = SetMax(smaller)

\* C24 (as stated): the type the block classifier gives a non-empty text block,
\* stored on the emitted element, is one of heading, paragraph, list_item,
\* table_data, footnote, label, text_block, image, caption.
ClosedElementTypeSet ==
    impl \in {"block_type", "block_type_completo"} =>
        \A i \in 1..Len(classified) :
            classified[i].type \in {"heading", "paragraph", "list_item", "table_data",
                                    "footnote", "label", "text_block", "image", "caption"}

\* C25 (as stated): on the structural path and on the page-scan path alike,
\* every chunk of create_structured_chunks carries word_count, char_count and
\* structural_confidence, so the statistics are computed and the run returns a
\* result.
SameChunkShape ==
    LET extraction_ran == impl = "chunks2" /\ pc = "returned" /\ fund_info # <<>>
    IN /\ ((impl = "docling" /\ pc = "done") \/ extraction_ran) =>
              \A k \in 1..Len(chunks) :
                  {"word_count", "char_count", "structural_confidence"}
                      \subseteq DOMAIN chunks[k]
       /\ extraction_ran => extracted_data # <<>>

\* C26 (as stated): the elements list of a chunk names exactly the blocks that
\* were appended to it after the overlap seed, in order and each once, also for
\* the block whose arrival closed the chunk before.
SourceElementListExact ==
    /\ (impl = "content" /\ pc = "done") =>
           \A k \in 1..Len(chunks) :
               chunks[k].elements
                   = [i \in 1..Len(hist[k].appended) |-> hist[k].appended[i].element.id]
    /\ (impl = "chunks2" /\ pc = "returned") =>
           \A k \in 1..Len(chunks) :
               \A i, j \in 1..Len(chunks[k].elements) :
                   chunks[k].elements[i] = chunks[k].elements[j] => i = j

\* the positions of the headings among the parts appended to an accumulator
HeadingsAmong(appended) ==
    {i \in 1..Len(appended) : appended[i].element.type = "heading"}

\* a heading among the appended parts is the only one and the first, nothing
\* was seeded before it and the text starts with it
OpenedByHeading(seed, appended, text) ==
    HeadingsAmong(appended) # {} =>
        /\ HeadingsAmong(appended) = {1}
        /\ seed = <<>>
        /\ StartsWith(text, appended[1].element.content)

\* C27: in _create_chunks_from_docling every chunk, and the accumulator while
\* it is built, holds at most one heading; the heading is its first element,
\* no overlap seed stands before it and the content starts with the heading
\* text.
HeadingOpensChunk ==
    impl = "docling" =>
        /\ \A k \in 1..Len(chunks) :
               OpenedByHeading(hist[k].seed, hist[k].appended, chunks[k].content)
        /\ OpenedByHeading(current_seed, current_appended, current_chunk_content)

\* a heading arrived when the accumulator was past min_chunk_size and too full
\* to take it, and it opened a chunk that went on to take another element
HeadingOpensChunkWitness ==
    /\ impl = "docling"
    /\ pc = "done"
    /\ \E k \in 2..Len(chunks) :
           /\ hist[k - 1].by = "heading"
           /\ Len(hist[k - 1].raw) > min_chunk_size
           /\ Len(hist[k - 1].raw) + Len(hist[k].appended[1].element.content) > chunk_size
           /\ hist[k].appended[1].element.type = "heading"
           /\ Len(hist[k].appended) >= 2

\* C28: in _create_chunks_from_docling every chunk was closed with at least one
\* element in its element list, whatever closed it; the chunks are never more
\* than the input elements, and structural_confidence is the mean of the
\* elements' confidences (0.9), never the fallback 0.5.
EveryChunkOwnsAnElement ==
    impl = "docling" =>
        /\ \A k \in 1..Len(chunks) :
               LET owned == [i \in 1..Len(hist[k].appended) |-> hist[k].appended[i].element]
               IN /\ owned # <<>>
                  /\ chunks[k].structural_confidence * Len(owned) = confidence_sum(owned)
                  /\ chunks[k].structural_confidence # 5
        /\ Len(chunks) <= Len(text_blocks)
        /\ (pc = "loop" /\ idx > 1) => current_elements # <<>>

\* chunks closed by a heading, by the size boundary and by the end of the input
EveryChunkOwnsAnElementWitness ==
    /\ impl = "docling"
    /\ pc = "done"
    /\ {hist[k].by : k \in 1..Len(hist)} = {"heading", "boundary", "end"}
    /\ Len(chunks) = Len(text_blocks)

\* max(chunk_size, max(min_chunk_size, overlap) + L) + 2
LengthBound(L) ==
    SetMax({chunk_size, SetMax({min_chunk_size, overlap}) + L}) + 2

\* chunk k is within the bound for L, and within chunk_size + 2 when
\* L <= chunk_size - overlap - 2 and min_chunk_size <= overlap
WithinLengthBound(k, L) ==
    /\ Len(hist[k].raw) <= LengthBound(L)
    /\ (L <= chunk_size - overlap - 2 /\ min_chunk_size <= overlap)
           => Len(hist[k].raw) <= chunk_size + 2

\* C29 (as stated): with overlap >= 1 and L the length of the longest element
\* content, the accumulated content of every chunk is at most
\* max(chunk_size, max(min_chunk_size, overlap) + L) + 2 long; so with
\* L <= chunk_size - overlap - 2 and min_chunk_size <= overlap no chunk is
\* longer than chunk_size + 2.
ChunkLengthBound ==
    (impl \in {"docling", "content"} /\ overlap >= 1) =>
        \A k \in 1..Len(hist) :
            WithinLengthBound(k,
                SetMax({0} \cup {Len(InputElements[i].content) : i \in 1..Len(InputElements)}))

\* C29 amended: the bound holds with L the length of the longest text appended
\* for an element: the element content, in extrair/chunks.py followed by the
\* page's visual-context note where the builder attaches it.
ChunkLengthBoundAppended ==
    (impl \in {"docling", "content"} /\ overlap >= 1) =>
        \A k \in 1..Len(hist) :
            WithinLengthBound(k,
                SetMax({0} \cup UNION {{Len(hist[j].appended[i].text) :
                                            i \in 1..Len(hist[j].appended)} :
                                        j \in 1..Len(hist)}))
\* a chunk started from an overlap seed is longer than chunk_size + 2 and would
\* be out of bounds were L one less than its longest appended text
ChunkLengthBoundWitness ==
    /\ impl \in {"docling", "content"}
    /\ overlap >= 1
    /\ pc = "done"
    /\ \E k \in 2..Len(hist) :
           /\ hist[k].seed # <<>>
           /\ Len(hist[k].raw) > chunk_size + 2
           /\ ~WithinLengthBound(k, SetMax({Len(hist[k].appended[i].text) :
                                               i \in 1..Len(hist[k].appended)}) - 1)

\* the list positions _get_hierarchy_path passes from position pos up to the
\* last parent it can resolve, outermost first
RECURSIVE ClimbedPositions(_, _)
ClimbedPositions(structures, pos) ==
    LET parent == resolve_parent(structures, structures[pos].parent_id)
    IN IF structures[pos].parent_id = NoParent \/ parent = 0 THEN <<pos>>
       ELSE ClimbedPositions(structures, parent) \o <<pos>>

\* C30: for every section list of _build_document_hierarchy each parent_id
\* resolves to a list position before the section it was read from (or to
\* none), so the climb of _get_hierarchy_path ends; the path returned for a
\* title ends with that title, names the sections of strictly increasing list
\* positions (none twice), is [title] when no section has the title and is
\* empty for the empty title.
HierarchyPathTerminates ==
    impl = "docling" =>
        /\ \A j \in 1..Len(document_structures) :
               resolve_parent(document_structures, document_structures[j].parent_id) < j
        /\ \A title \in {document_structures[j].title : j \in 1..Len(document_structures)}
                            \cup {<<>>, <<"Z", "z", "z">>} :
               LET path == get_hierarchy_path(document_structures, title)
                   same == {j \in 1..Len(document_structures) :
                                document_structures[j].title = title}
               IN /\ title = <<>> => path = <<>>
                  /\ (title # <<>> /\ same = {}) => path = <<title>>
                  /\ same # {} =>
                         LET climbed == ClimbedPositions(document_structures, SetMin(same))
                         IN /\ path = [n \in 1..Len(climbed) |->
                                           document_structures[climbed[n]].title]
                            /\ path[Len(path)] = title
                            /\ \A n \in 1..(Len(climbed) - 1) : climbed[n] < climbed[n + 1]

\* the path of a section under a parent: the parent's title, then its own
HierarchyPathTerminatesWitness ==
    /\ impl = "docling"
    /\ pc = "done"
    /\ \E j \in 1..Len(document_structures) :
           /\ document_structures[j].parent_id # NoParent
           /\ Len(get_hierarchy_path(document_structures, document_structures[j].title)) = 2
    /\ \E k \in 1..Len(chunks) : Len(chunks[k].hierarchy_path) = 2

=============================================================================
